---- MODULE Spec2Model ----
(***************************************************************************)
(* A model of gitagent's agent orchestration:                              *)
(*   - AgentManager.execute_agents / execute_agent and                     *)
(*     BranchAutomationManager.execute_branch_workflow   (Spec)            *)
(*   - AgentManager.discover_agents and its TTL cache    (SpecDiscover)    *)
(*   - AgentManager.filter_agents / _should_run_agent    (SpecFilter)      *)
(* Every external command (git, the agent CLI, the code-hosting API, the   *)
(* file system) is a nondeterministic choice between the outcomes the code *)
(* distinguishes.                                                          *)
(***************************************************************************)
EXTENDS Integers, Sequences, FiniteSets, TLC

VARIABLES
    \* ---- one run of execute_agents ----
    agents,      \* the filtered agent list handed to execute_agents
    token,       \* AgentManager._github_token is set
    phase,       \* per agent: the statement of execute_agent it is at
    draft,       \* per agent: the AgentExecutionResult being built / returned
    wf,          \* per agent: locals of execute_branch_workflow
    results,     \* execute_agents' local list `results`
    runState,    \* "running" | "returned"
    head,        \* branch the shared working tree is checked out on
    remote,      \* branches pushed to origin
    prs,         \* pull requests created: records [head, base]
    gitTrace,    \* agents that ran git commands, in order, repeats collapsed
    \* ---- discover_agents and its cache ----
    agentCache,       \* AgentManager._agent_cache: cache key -> agent list
    cacheTimestamp,   \* AgentManager._cache_timestamp
    now,              \* time.time()
    agentsDirExists,  \* <workspace>/<agents_directory> exists
    call,             \* per caller: position in discover_agents and its locals
    loadedAt,         \* per cache key: when its cached list was loaded
    lastReturn,       \* what the most recent discover_agents call returned
    \* ---- one call of _should_run_agent ----
    trig_triggers,    \* agent.triggers
    trig_event,       \* the event and github_context (ref, action, commits)
    trig_files,       \* file_changes: the FileChange filenames
    trig_eval,        \* position in _should_run_agent, and what it has evaluated
    \* ---- one call of filter_agents ----
    flt_agents,       \* the discovered agents: [triggers, priority]
    flt_event,        \* the event and github_context
    flt_files,        \* file_changes extracted from the event
    flt_next,         \* index of the next agent of the for loop
    flt_filtered,     \* filtered_agents, as indices into flt_agents
    flt_state,        \* "start" | "loop" | "returned"
    \* ---- the status-check state of _handle_status_check ----
    st_output,      \* the output text handed to _handle_status_check
    st_failure_on,  \* agent.output.status_check_failure_on
    st_success_on,  \* agent.output.status_check_success_on
    st_state,       \* the computed state, "none" before the computation
    \* ---- one call of _handle_agent_output ----
    rt_cfg,        \* agent.output, the credential and the event's comment target
    rt_text,       \* the local variable output
    rt_pc,         \* index of the next stage of _handle_agent_output
    rt_stages,     \* the stages run so far
    rt_log,        \* outcome of the file read, of the template and of the delivery
    rt_api,        \* code-hosting API operations invoked
    rt_delivered,  \* what the console, file or artifact destination received
    \* ---- TemplateFileIncluder ----
    inc_files,      \* files_changed: the changed files' paths, in event order
    inc_workspace,  \* per path: what the workspace holds there
    inc_blocks,     \* the blocks include_files returned, <<>> before the call
    inc_dirs,       \* changed_file_dirs and changed_file_dirs_and_ancestors, once computed
    inc_done,       \* which of the two operations have run
    \* ---- the directory scan of one discover_agents call ----
    ld_dirs,    \* the scanned directories: per directory its definition files, in glob order
    ld_next,    \* index of the next file of the scan
    ld_agents,  \* the definitions loaded so far: <<directory, file>> positions
    ld_state,   \* "scanning" | "returned"
    \* ---- the child-process waits of one agent execution ----
    ch_auto,     \* branch automation is enabled for the agent
    ch_hangs,    \* the child-process calls whose process never exits
    ch_call,     \* the child-process call the execution is at, or "done"
    ch_wait,     \* the process of ch_call is spawned and awaited
    ch_elapsed,  \* seconds the armed timer of the current wait has run
    ch_result,   \* "none" | "success" | "failure"
    ch_running,  \* the calls whose child process is spawned and has not exited
    ch_error,    \* the exception the agent CLI call reported, or ""
    \* ---- the truncation of one output text ----
    tr_output,      \* the text that reaches the truncation of _handle_agent_output
    tr_max_length,  \* agent.output.max_length
    tr_delivered,   \* the text handed to the destination, once truncated
    tr_done,        \* the truncation has run
    \* ---- the resolution of one include pattern ----
    rp_pattern,   \* the include pattern: a sequence of atoms <<kind, path>>
    rp_files,     \* the names of the changed files
    rp_resolved,  \* the list of resolved patterns
    rp_done,      \* _resolve_pattern_variables has returned
    \* ---- the statistics of one GitHubActionEventProcessor ----
    ev_settings,  \* enabled_events and disabled_events of the settings (an empty set: not given)
    ev_stats,     \* self.stats of the processor
    ev_last,      \* the EventProcessingResult of the last completed call, or its absence
    \* ---- the loops of changed_file_dirs_and_ancestors ----
    an_files,    \* the names of the changed files, absolute ones included
    an_todo,     \* the changed-file directories the for loop has still to visit
    an_current,  \* current of the while loop
    an_dirs,     \* dirs, the set under construction
    an_pc        \* "for" | "while" | "done"

execVars == <<agents, token, phase, draft, wf, results, runState, head, remote, prs, gitTrace>>

discVars == <<agentCache, cacheTimestamp, now, agentsDirExists, call, loadedAt, lastReturn>>

trigVars == <<trig_triggers, trig_event, trig_files, trig_eval>>

fltVars == <<flt_agents, flt_event, flt_files, flt_next, flt_filtered, flt_state>>

stVars == <<st_output, st_failure_on, st_success_on, st_state>>

rtVars == <<rt_cfg, rt_text, rt_pc, rt_stages, rt_log, rt_api, rt_delivered>>

incVars == <<inc_files, inc_workspace, inc_blocks, inc_dirs, inc_done>>

ldVars == <<ld_dirs, ld_next, ld_agents, ld_state>>

chVars == <<ch_auto, ch_hangs, ch_call, ch_wait, ch_elapsed, ch_result, ch_running, ch_error>>

trVars == <<tr_output, tr_max_length, tr_delivered, tr_done>>

rpVars == <<rp_pattern, rp_files, rp_resolved, rp_done>>

evVars == <<ev_settings, ev_stats, ev_last>>

anVars == <<an_files, an_todo, an_current, an_dirs, an_pc>>

vars == <<execVars, discVars, trigVars, fltVars, stVars, rtVars, incVars, ldVars, chVars, trVars, rpVars, evVars, anVars>>

\* what a step of one component leaves alone
notExec == <<discVars, trigVars, fltVars, stVars, rtVars, incVars, ldVars, chVars, trVars, rpVars, evVars, anVars>>
notDisc == <<execVars, trigVars, fltVars, stVars, rtVars, incVars, ldVars, chVars, trVars, rpVars, evVars, anVars>>
notTrig == <<execVars, discVars, fltVars, stVars, rtVars, incVars, ldVars, chVars, trVars, rpVars, evVars, anVars>>
notFlt == <<execVars, discVars, trigVars, stVars, rtVars, incVars, ldVars, chVars, trVars, rpVars, evVars, anVars>>
notSt == <<execVars, discVars, trigVars, fltVars, rtVars, incVars, ldVars, chVars, trVars, rpVars, evVars, anVars>>
notRt == <<execVars, discVars, trigVars, fltVars, stVars, incVars, ldVars, chVars, trVars, rpVars, evVars, anVars>>
notInc == <<execVars, discVars, trigVars, fltVars, stVars, rtVars, ldVars, chVars, trVars, rpVars, evVars, anVars>>
notLd == <<execVars, discVars, trigVars, fltVars, stVars, rtVars, incVars, chVars, trVars, rpVars, evVars, anVars>>
notCh == <<execVars, discVars, trigVars, fltVars, stVars, rtVars, incVars, ldVars, trVars, rpVars, evVars, anVars>>
notTr == <<execVars, discVars, trigVars, fltVars, stVars, rtVars, incVars, ldVars, chVars, rpVars, evVars, anVars>>
notRp == <<execVars, discVars, trigVars, fltVars, stVars, rtVars, incVars, ldVars, chVars, trVars, evVars, anVars>>
notEv == <<execVars, discVars, trigVars, fltVars, stVars, rtVars, incVars, ldVars, chVars, trVars, rpVars, anVars>>
notAn == <<execVars, discVars, trigVars, fltVars, stVars, rtVars, incVars, ldVars, chVars, trVars, rpVars, evVars>>

(***************************************************************************)
(* Bounds                                                                  *)
(***************************************************************************)
MaxAgents == 2
NumCallers == 2
Tick == 150
MaxClock == 450

\* most agents handed to one filter_agents call
MaxDiscovered == 3

\* longest output text of the status-check computation
MaxOutputLen == 3

\* most changed files of one event
MaxChanged == 2

\* most definition files of one directory
MaxFiles == 2

\* most calls of process_event on one processor
MaxEvents == 3

\* most atoms of an include pattern
MaxPatternLen == 3

\* most child-process calls of one execution whose process never exits
MaxHanging == 1

\* seconds between two looks at the clock of a wait
WaitStep == 450

\* timeout_seconds of the agent CLI (TIMEOUT_SECONDS, by default)
TimeoutSeconds == 900

(***************************************************************************)
(* Values                                                                  *)
(***************************************************************************)
None == <<"None", 0>>
MainBranch == <<"main", 0>>
DevelopBranch == <<"develop", 0>>

\* AgentType enum values; any other string makes AgentType(...) raise ValueError
AgentType == {"codex", "gemini", "claude", "claude_code_sdk", "custom"}

\* AgentBranchAutomation
NoAutomation == [enabled |-> FALSE, target_branch |-> None, create_pull_request |-> FALSE]

AgentConfigs ==
    { [type |-> "claude", ba |-> NoAutomation, destination |-> "console"],
      [type |-> "claude", ba |-> NoAutomation, destination |-> "file"],
      [type |-> "claude",
       ba |-> [enabled |-> TRUE, target_branch |-> None, create_pull_request |-> TRUE],
       destination |-> "console"],
      [type |-> "claude",
       ba |-> [enabled |-> TRUE, target_branch |-> DevelopBranch, create_pull_request |-> FALSE],
       destination |-> "console"],
      [type |-> "claude_code_sdk", ba |-> NoAutomation, destination |-> "console"],
      [type |-> "gpt", ba |-> NoAutomation, destination |-> "console"] }

AgentLists == UNION { [1..n -> AgentConfigs] : n \in 0..MaxAgents }

Idx == 1..Len(agents)

\* GitOperations.generate_branch_name: <prefix>-<uuid suffix>, unique per call
generate_branch_name(k) == <<"agent-fix", k>>

NoWorkflow ==
    [branch_name |-> None, base_branch |-> None, current_branch |-> None,
     status |-> "none", error |-> "", ret |-> <<None, None, None>>,
     created |-> FALSE, diff |-> "", failed_at |-> "", rb_query |-> "", rb_checkout |-> "",
     commit_sha |-> None, effects |-> <<>>]

NoResult ==
    [success |-> FALSE, error |-> "", output |-> FALSE, branch_created |-> None,
     pr_created |-> None, branch_automation_error |-> "", routed |-> FALSE]

\* AgentExecutionResult(success=False, error=str(e), ...)
FailedResult(err) == [NoResult EXCEPT !.error = err]

\* AgentExecutionResult(success=True, output=output, ...)
SuccessResult == [NoResult EXCEPT !.success = TRUE, !.output = TRUE]

\* one git command run on behalf of agent k
GitBy(k) ==
    IF gitTrace # <<>> /\ gitTrace[Len(gitTrace)] = k THEN gitTrace ELSE Append(gitTrace, k)

(***************************************************************************)
(* execute_agents: for agent in agents: try: result = await execute_agent  *)
(***************************************************************************)
Active(k) == phase[k] \notin {"pending", "recorded", "raised"}

\* the for loop awaits each execute_agent before taking the next agent
CanStartGather(k) == phase[k] = "pending"

CanStart(k) ==
    /\ phase[k] = "pending"
    /\ k = Len(results) + 1
    /\ \A j \in Idx : ~Active(j)

\* execute_agent line 414 (outside its try) and execute_agents' handler line 394
\* both evaluate AgentType(agent.agent.get('type', 'custom'))
StartAgent(k) ==
    /\ runState = "running"
    /\ CanStart(k)
    /\ IF agents[k].type \in AgentType
       THEN /\ phase' = [phase EXCEPT ![k] = "render"]
            /\ runState' = runState
       ELSE \* ValueError leaves execute_agent, is caught at line 386, and the
            \* handler's own AgentType(...) raises it again out of execute_agents
            /\ phase' = [phase EXCEPT ![k] = "raised"]
            /\ runState' = "raised"
    /\ UNCHANGED <<notExec, agents, token, draft, wf, results, head, remote, prs, gitTrace>>

\* execute_agent's except clause (lines 524-540)
FailThenRoute(k, err) ==
    /\ draft' = [draft EXCEPT ![k] = FailedResult(err)]
    /\ phase' = [phase EXCEPT ![k] = "route"]

Fail(k, err) ==
    /\ draft' = [draft EXCEPT ![k] = FailedResult(err)]
    /\ phase' = [phase EXCEPT ![k] = "return"]

\* _enhance_file_changes (swallows its errors) and _render_prompt_template (re-raises)
RenderPrompt(k) ==
    /\ phase[k] = "render"
    /\ \E ok \in BOOLEAN :
          IF ok
          THEN /\ phase' = [phase EXCEPT ![k] = "execute"]
               /\ draft' = draft
          ELSE Fail(k, "render")
    /\ UNCHANGED <<notExec, agents, token, wf, results, runState, head, remote, prs, gitTrace>>

\* if agent.branch_automation and agent.branch_automation.enabled:
\*     branch_automation = self._get_branch_automation(); if branch_automation:
BranchAutomationRuns(k) == agents[k].ba.enabled /\ token

ExecOutcomes(k) ==
    IF agents[k].type = "claude_code_sdk"
    THEN {"sdk_unavailable", "sdk_ok", "sdk_error"}
    ELSE {"ok", "nonzero_exit", "timeout"}

\* lines 433-460: the SDK branch returns the executor's result at once; the CLI
\* branch builds the result and goes on to branch automation and routing
ExecuteAgent(k) ==
    /\ phase[k] = "execute"
    /\ \E o \in ExecOutcomes(k) :
          CASE o = "ok" ->
                 /\ draft' = [draft EXCEPT ![k] = SuccessResult]
                 /\ phase' = [phase EXCEPT ![k] =
                        IF BranchAutomationRuns(k) THEN "wf_begin" ELSE "route"]
            [] o = "sdk_ok" ->
                 /\ draft' = [draft EXCEPT ![k] = SuccessResult]
                 /\ phase' = [phase EXCEPT ![k] = "return"]
            [] o = "sdk_error" -> Fail(k, "sdk")
            [] OTHER -> Fail(k, o)
    /\ UNCHANGED <<notExec, agents, token, wf, results, runState, head, remote, prs, gitTrace>>

(***************************************************************************)
(* BranchAutomationManager.execute_branch_workflow                         *)
(***************************************************************************)
\* the workflow of agent k has had one more external effect
Effect(w, effect) == [w EXCEPT !.effects = Append(@, effect)]

\* a statement inside the workflow's try raises: control goes to `except Exception`
WfError(k, step) ==
    /\ wf' = [wf EXCEPT ![k].status = "cleanup", ![k].error = step, ![k].failed_at = step]
    /\ phase' = [phase EXCEPT ![k] = "wf_cleanup"]

\* base_branch = automation_config.target_branch or current_branch
BaseBranch(target_branch, current_branch) ==
    IF target_branch # None THEN target_branch ELSE current_branch

\* lines 513-521: generate_branch_name, repository.split, get_current_branch
WfBegin(k) ==
    /\ phase[k] = "wf_begin"
    /\ \E ok \in BOOLEAN :
          IF ok
          THEN /\ wf' = [wf EXCEPT ![k] =
                     [NoWorkflow EXCEPT
                        !.branch_name = generate_branch_name(k),
                        !.current_branch = head,
                        !.base_branch = BaseBranch(agents[k].ba.target_branch, head),
                        !.status = "running"]]
               /\ phase' = [phase EXCEPT ![k] = "wf_checkout_base"]
          ELSE /\ wf' = [wf EXCEPT ![k] =
                     [NoWorkflow EXCEPT
                        !.branch_name = generate_branch_name(k),
                        !.status = "cleanup",
                        !.error = "get_current_branch",
                        !.failed_at = "get_current_branch"]]
               /\ phase' = [phase EXCEPT ![k] = "wf_cleanup"]
    /\ gitTrace' = GitBy(k)
    /\ UNCHANGED <<notExec, agents, token, draft, results, runState, head, remote, prs>>

\* create_branch: git checkout <base_branch>
WfCheckoutBase(k) ==
    /\ phase[k] = "wf_checkout_base"
    /\ \E ok \in BOOLEAN :
          IF ok
          THEN /\ head' = wf[k].base_branch
               /\ phase' = [phase EXCEPT ![k] = "wf_pull_base"]
               /\ wf' = [wf EXCEPT ![k] = Effect(@, "checkout_base")]
          ELSE /\ WfError(k, "checkout_base")
               /\ head' = head
    /\ gitTrace' = GitBy(k)
    /\ UNCHANGED <<notExec, agents, token, draft, results, runState, remote, prs>>

\* create_branch: git pull origin <base_branch>
WfPullBase(k) ==
    /\ phase[k] = "wf_pull_base"
    /\ \E ok \in BOOLEAN :
          IF ok
          THEN /\ phase' = [phase EXCEPT ![k] = "wf_create_branch"]
               /\ wf' = [wf EXCEPT ![k] = Effect(@, "pull_base")]
          ELSE WfError(k, "pull_base")
    /\ gitTrace' = GitBy(k)
    /\ UNCHANGED <<notExec, agents, token, draft, results, runState, head, remote, prs>>

\* create_branch: git checkout -b <branch_name>
WfCreateBranch(k) ==
    /\ phase[k] = "wf_create_branch"
    /\ \E ok \in BOOLEAN :
          IF ok
          THEN /\ head' = wf[k].branch_name
               /\ wf' = [wf EXCEPT ![k] = Effect([@ EXCEPT !.created = TRUE], "create_branch")]
               /\ phase' = [phase EXCEPT ![k] = "wf_apply"]
          ELSE /\ WfError(k, "create_branch")
               /\ head' = head
    /\ gitTrace' = GitBy(k)
    /\ UNCHANGED <<notExec, agents, token, draft, results, runState, remote, prs>>

\* _apply_agent_changes writes <agent>-output.md; _render_template never raises
WfApplyChanges(k) ==
    /\ phase[k] = "wf_apply"
    /\ \E ok \in BOOLEAN :
          IF ok
          THEN /\ phase' = [phase EXCEPT ![k] = "wf_stage"]
               /\ wf' = [wf EXCEPT ![k] = Effect(@, "write_output")]
          ELSE WfError(k, "apply_changes")
    /\ UNCHANGED <<notExec, agents, token, draft, results, runState, head, remote, prs, gitTrace>>

\* commit_changes: git add .
WfStage(k) ==
    /\ phase[k] = "wf_stage"
    /\ \E ok \in BOOLEAN :
          IF ok
          THEN /\ phase' = [phase EXCEPT ![k] = "wf_diff"]
               /\ wf' = wf
          ELSE WfError(k, "stage")
    /\ gitTrace' = GitBy(k)
    /\ UNCHANGED <<notExec, agents, token, draft, results, runState, head, remote, prs>>

\* commit_changes returns "" when `git diff --cached --name-only` prints nothing
\* or fails; execute_branch_workflow then returns (None, None, None)
ReturnsWithoutCommitOnlyOnError(diff) == diff = "fail"

ReturnsWithoutCommit(diff) == diff \in {"empty", "fail"}

WfDiffCached(k) ==
    /\ phase[k] = "wf_diff"
    /\ \E diff \in {"staged", "empty", "fail"} :
          IF ReturnsWithoutCommit(diff)
          THEN /\ wf' = [wf EXCEPT ![k].status = "returned",
                                   ![k].ret = <<None, None, None>>,
                                   ![k].diff = diff]
               /\ phase' = [phase EXCEPT ![k] = "wf_exit"]
          ELSE /\ wf' = [wf EXCEPT ![k].diff = diff]
               /\ phase' = [phase EXCEPT ![k] = "wf_commit"]
    /\ gitTrace' = GitBy(k)
    /\ UNCHANGED <<notExec, agents, token, draft, results, runState, head, remote, prs>>

\* commit_changes: git commit -m <message>; git rev-parse HEAD. Either command
\* may fail (step "commit"); after a failed rev-parse the commit is made
WfCommit(k) ==
    /\ phase[k] = "wf_commit"
    /\ \E o \in {"ok", "commit_fails", "rev_parse_fails"} :
          CASE o = "ok" ->
                 /\ phase' = [phase EXCEPT ![k] = "wf_push"]
                 /\ wf' = [wf EXCEPT ![k] =
                            Effect([@ EXCEPT !.commit_sha = <<"sha", k>>], "commit")]
            [] o = "commit_fails" -> WfError(k, "commit")
            [] OTHER ->
                 /\ wf' = [wf EXCEPT ![k] =
                            [Effect(@, "commit") EXCEPT !.status = "cleanup",
                                                        !.error = "commit",
                                                        !.failed_at = "commit"]]
                 /\ phase' = [phase EXCEPT ![k] = "wf_cleanup"]
    /\ gitTrace' = GitBy(k)
    /\ UNCHANGED <<notExec, agents, token, draft, results, runState, head, remote, prs>>

\* if automation_config.create_pull_request
CreatesPullRequestAlways(automation_config) == TRUE

CreatesPullRequest(automation_config) == automation_config.create_pull_request

\* push_branch: git push origin <branch_name>
WfPush(k) ==
    /\ phase[k] = "wf_push"
    /\ \E ok \in BOOLEAN :
          IF ok
          THEN /\ remote' = remote \cup {wf[k].branch_name}
               /\ IF CreatesPullRequest(agents[k].ba)
                  THEN /\ phase' = [phase EXCEPT ![k] = "wf_create_pr"]
                       /\ wf' = [wf EXCEPT ![k] = Effect(@, "push")]
                  ELSE /\ phase' = [phase EXCEPT ![k] = "wf_exit"]
                       /\ wf' = [wf EXCEPT ![k] =
                                  [Effect(@, "push") EXCEPT
                                     !.status = "returned",
                                     !.ret = <<wf[k].branch_name, None, None>>]]
          ELSE /\ WfError(k, "push")
               /\ remote' = remote
    /\ gitTrace' = GitBy(k)
    /\ UNCHANGED <<notExec, agents, token, draft, results, runState, head, prs>>

\* github_api.create_pull_request(head_branch=branch_name, base_branch=base_branch)
WfCreatePR(k) ==
    /\ phase[k] = "wf_create_pr"
    /\ \E ok \in BOOLEAN :
          IF ok
          THEN /\ prs' = prs \cup {[head |-> wf[k].branch_name, base |-> wf[k].base_branch]}
               /\ phase' = [phase EXCEPT ![k] = "wf_exit"]
               /\ wf' = [wf EXCEPT ![k] =
                          [Effect(@, "create_pr") EXCEPT
                             !.status = "returned",
                             !.ret = <<wf[k].branch_name, <<"pr", k>>, <<"url", k>>>>]]
          ELSE /\ WfError(k, "create_pull_request")
               /\ prs' = prs
    /\ UNCHANGED <<notExec, agents, token, draft, results, runState, head, remote, gitTrace>>

\* the bare `raise` after the guarded cleanup re-raises the workflow's own error
ReRaised(original, cleanup) == original

\* if current_branch == branch_name: git checkout <base_branch>
CleanupChecksOutNever(current_branch, branch_name) == FALSE

CleanupChecksOut(current_branch, branch_name) == current_branch = branch_name

WfRaise(w, cleanup) ==
    [w EXCEPT !.status = "raised", !.error = ReRaised(w.error, cleanup)]

\* except: try: current_branch = await get_current_branch() ... except: pass
WfCleanupQuery(k) ==
    /\ phase[k] = "wf_cleanup"
    /\ \E ok \in BOOLEAN :
          IF ok
          THEN IF CleanupChecksOut(head, wf[k].branch_name)
               THEN /\ wf' = [wf EXCEPT ![k].current_branch = head, ![k].rb_query = "ok"]
                    /\ phase' = [phase EXCEPT ![k] = "wf_cleanup_checkout"]
               ELSE /\ wf' = [wf EXCEPT ![k] =
                          WfRaise([wf[k] EXCEPT !.current_branch = head, !.rb_query = "ok"], "")]
                    /\ phase' = [phase EXCEPT ![k] = "wf_exit"]
          ELSE /\ wf' = [wf EXCEPT ![k] =
                     WfRaise([wf[k] EXCEPT !.rb_query = "fail"], "cleanup_get_current_branch")]
               /\ phase' = [phase EXCEPT ![k] = "wf_exit"]
    /\ gitTrace' = GitBy(k)
    /\ UNCHANGED <<notExec, agents, token, draft, results, runState, head, remote, prs>>

\* await self.git_ops.run_git_command(['checkout', base_branch]) inside try/except: pass
WfCleanupCheckout(k) ==
    /\ phase[k] = "wf_cleanup_checkout"
    /\ \E ok \in BOOLEAN :
          IF ok
          THEN /\ head' = wf[k].base_branch
               /\ wf' = [wf EXCEPT ![k] = WfRaise([wf[k] EXCEPT !.rb_checkout = "ok"], "")]
          ELSE /\ head' = head
               /\ wf' = [wf EXCEPT ![k] =
                     WfRaise([wf[k] EXCEPT !.rb_checkout = "fail"], "cleanup_checkout")]
    /\ phase' = [phase EXCEPT ![k] = "wf_exit"]
    /\ gitTrace' = GitBy(k)
    /\ UNCHANGED <<notExec, agents, token, draft, results, runState, remote, prs>>

\* lines 485-487 after a return of the workflow, line 501 after a raise
WorkflowErrorFailsResult(result, w) ==
    IF w.status = "returned"
    THEN [result EXCEPT !.branch_created = w.ret[1], !.pr_created = w.ret[2]]
    ELSE [result EXCEPT !.success = FALSE, !.error = w.error]

WorkflowIntoResult(result, w) ==
    IF w.status = "returned"
    THEN [result EXCEPT !.branch_created = w.ret[1], !.pr_created = w.ret[2]]
    ELSE [result EXCEPT !.branch_automation_error = w.error]

\* execute_agent lines 476-501: take the workflow's tuple, or record its error
AfterBranchWorkflow(k) ==
    /\ phase[k] = "wf_exit"
    /\ draft' = [draft EXCEPT ![k] = WorkflowIntoResult(draft[k], wf[k])]
    /\ phase' = [phase EXCEPT ![k] = "route"]
    /\ wf' = [wf EXCEPT ![k] = NoWorkflow]   \* the workflow's locals are gone
    /\ UNCHANGED <<notExec, agents, token, results, runState, head, remote, prs, gitTrace>>

(***************************************************************************)
(* _handle_agent_output, and the end of execute_agent / execute_agents     *)
(***************************************************************************)
\* open()/mkdir of the file destination are not guarded; console only prints
RouteOutcomes(destination) ==
    IF destination = "file" THEN {"ok", "raise"} ELSE {"ok"}

RouteOutput(k) ==
    /\ phase[k] = "route"
    /\ \E o \in RouteOutcomes(agents[k].destination) :
          IF o = "ok"
          THEN /\ draft' = [draft EXCEPT ![k].routed = TRUE]
               /\ phase' = [phase EXCEPT ![k] = "return"]
          ELSE Fail(k, "route")
    /\ UNCHANGED <<notExec, agents, token, wf, results, runState, head, remote, prs, gitTrace>>

\* result = await self.execute_agent(...); results.append(result)
RecordResult(k) ==
    /\ phase[k] = "return"
    /\ results' = Append(results, [agent |-> k, result |-> draft[k]])
    /\ phase' = [phase EXCEPT ![k] = "recorded"]
    /\ UNCHANGED <<notExec, agents, token, draft, wf, runState, head, remote, prs, gitTrace>>

\* return results
ReturnResults ==
    /\ runState = "running"
    /\ \A k \in Idx : phase[k] = "recorded"
    /\ runState' = "returned"
    /\ UNCHANGED <<notExec, agents, token, phase, draft, wf, results, head, remote, prs, gitTrace>>

ExecInit ==
    /\ agents \in AgentLists
    /\ token \in BOOLEAN
    /\ phase = [k \in 1..Len(agents) |-> "pending"]
    /\ draft = [k \in 1..Len(agents) |-> NoResult]
    /\ wf = [k \in 1..Len(agents) |-> NoWorkflow]
    /\ results = <<>>
    /\ runState = "running"
    /\ head = MainBranch
    /\ remote = {}
    /\ prs = {}
    /\ gitTrace = <<>>

ExecNext ==
    \/ \E k \in Idx : StartAgent(k)
    \/ \E k \in Idx : RenderPrompt(k)
    \/ \E k \in Idx : ExecuteAgent(k)
    \/ \E k \in Idx : WfBegin(k)
    \/ \E k \in Idx : WfCheckoutBase(k)
    \/ \E k \in Idx : WfPullBase(k)
    \/ \E k \in Idx : WfCreateBranch(k)
    \/ \E k \in Idx : WfApplyChanges(k)
    \/ \E k \in Idx : WfStage(k)
    \/ \E k \in Idx : WfDiffCached(k)
    \/ \E k \in Idx : WfCommit(k)
    \/ \E k \in Idx : WfPush(k)
    \/ \E k \in Idx : WfCreatePR(k)
    \/ \E k \in Idx : WfCleanupQuery(k)
    \/ \E k \in Idx : WfCleanupCheckout(k)
    \/ \E k \in Idx : AfterBranchWorkflow(k)
    \/ \E k \in Idx : RouteOutput(k)
    \/ \E k \in Idx : RecordResult(k)
    \/ ReturnResults

(***************************************************************************)
(* AgentManager.discover_agents and the agent cache                        *)
(***************************************************************************)
CacheTTL == 300

EventTypes == {"push", "pull_request"}
Workspace == "ws/.github/agents"
Callers == 1..NumCallers

\* cache_key = f"{event_type}:{agents_dir}"
cache_key_dir_only(event_type, agents_dir) == <<"", agents_dir>>

cache_key(event_type, agents_dir) == <<event_type, agents_dir>>

\* _load_agents_from_directory: the enabled, valid definitions of one directory
LoadAgentsFromDirectory(dir) == <<[dir |-> dir, file |-> "agent.yml"]>>

\* _is_cache_valid
IsCacheValidKeyOnly(key) == key \in DOMAIN agentCache

IsCacheValid(key) ==
    /\ key \in DOMAIN agentCache
    /\ (now - cacheTimestamp) < CacheTTL

\* lines 108-116: agents = [] ... return agents
AgentsWhenDirMissingStale(key) ==
    IF key \in DOMAIN agentCache THEN agentCache[key] ELSE <<>>

AgentsWhenDirMissing(key) == <<>>

IdleCall == [pc |-> "idle", event_type |-> "", key |-> <<"", "">>, agents |-> <<>>]

NoReturn ==
    [caller |-> 0, event_type |-> "", agents |-> <<>>, from_cache |-> FALSE,
     dir_missing |-> FALSE, dir_at_call |-> TRUE, age |-> 0, since_load |-> 0]

\* time of the most recent load of any key (0 before the first)
LastLoad ==
    IF DOMAIN loadedAt = {} THEN 0
    ELSE CHOOSE t \in {loadedAt[k] : k \in DOMAIN loadedAt} :
            \A k \in DOMAIN loadedAt : loadedAt[k] <= t

\* lines 100-106: compute the key, return the cached list if it is valid
DiscoverBegin(p) ==
    /\ call[p].pc = "idle"
    /\ \E event_type \in EventTypes :
          LET key == cache_key(event_type, Workspace) IN
          IF IsCacheValid(key)
          THEN /\ lastReturn' =
                     [caller |-> p, event_type |-> event_type, agents |-> agentCache[key],
                      from_cache |-> TRUE, dir_missing |-> FALSE,
                      dir_at_call |-> agentsDirExists,
                      age |-> now - loadedAt[key], since_load |-> now - LastLoad]
               /\ call' = call
          ELSE /\ call' = [call EXCEPT ![p] =
                     [pc |-> "exists", event_type |-> event_type, key |-> key, agents |-> <<>>]]
               /\ lastReturn' = lastReturn
    /\ UNCHANGED <<agentCache, cacheTimestamp, now, agentsDirExists, loadedAt>>
    /\ UNCHANGED notDisc

\* lines 110-116: a missing agents directory returns [] (and caches nothing)
DiscoverCheckDir(p) ==
    /\ call[p].pc = "exists"
    /\ IF agentsDirExists
       THEN /\ call' = [call EXCEPT ![p].pc = "scan_event"]
            /\ lastReturn' = lastReturn
       ELSE /\ call' = [call EXCEPT ![p] = IdleCall]
            /\ lastReturn' =
                  [NoReturn EXCEPT !.caller = p, !.event_type = call[p].event_type,
                                   !.agents = AgentsWhenDirMissing(call[p].key),
                                   !.dir_missing = TRUE, !.dir_at_call = FALSE]
    /\ UNCHANGED <<agentCache, cacheTimestamp, now, agentsDirExists, loadedAt>>
    /\ UNCHANGED notDisc

\* lines 118-121: agents.extend(load(<agents_dir>/<event_type>))
DiscoverScanEventDir(p) ==
    /\ call[p].pc = "scan_event"
    /\ call' = [call EXCEPT ![p].pc = "scan_wildcard",
                            ![p].agents = @ \o LoadAgentsFromDirectory(call[p].event_type)]
    /\ UNCHANGED <<agentCache, cacheTimestamp, now, agentsDirExists, loadedAt, lastReturn>>
    /\ UNCHANGED notDisc

\* lines 123-126: agents.extend(load(d)) for the directories named *, all, common
DiscoverScanWildcardDirs(p) ==
    /\ call[p].pc = "scan_wildcard"
    /\ call' = [call EXCEPT ![p].pc = "store",
                            ![p].agents = @ \o LoadAgentsFromDirectory("common")]
    /\ UNCHANGED <<agentCache, cacheTimestamp, now, agentsDirExists, loadedAt, lastReturn>>
    /\ UNCHANGED notDisc

\* lines 128-139: self._agent_cache[cache_key] = agents;
\* self._cache_timestamp = time.time(); return agents
DiscoverStore(p) ==
    /\ call[p].pc = "store"
    /\ agentCache' = [k \in DOMAIN agentCache \cup {call[p].key} |->
                        IF k = call[p].key THEN call[p].agents ELSE agentCache[k]]
    /\ cacheTimestamp' = now
    /\ loadedAt' = [k \in DOMAIN loadedAt \cup {call[p].key} |->
                        IF k = call[p].key THEN now ELSE loadedAt[k]]
    /\ lastReturn' =
          [NoReturn EXCEPT !.caller = p, !.event_type = call[p].event_type,
                           !.agents = call[p].agents]
    /\ call' = [call EXCEPT ![p] = IdleCall]
    /\ UNCHANGED <<now, agentsDirExists>>
    /\ UNCHANGED notDisc

\* the clock advances
ClockTick ==
    /\ now + Tick <= MaxClock
    /\ now' = now + Tick
    /\ UNCHANGED <<agentCache, cacheTimestamp, agentsDirExists, call, loadedAt, lastReturn>>
    /\ UNCHANGED notDisc

\* the agents directory is removed or created
ToggleAgentsDir ==
    /\ agentsDirExists' = ~agentsDirExists
    /\ UNCHANGED <<agentCache, cacheTimestamp, now, call, loadedAt, lastReturn>>
    /\ UNCHANGED notDisc

\* AgentManager.__init__: empty cache, timestamp 0
DiscInit ==
    /\ agentCache = <<>>
    /\ cacheTimestamp = 0
    /\ now = 0
    /\ agentsDirExists \in BOOLEAN
    /\ call = [p \in Callers |-> IdleCall]
    /\ loadedAt = <<>>
    /\ lastReturn = NoReturn

DiscNext ==
    \/ \E p \in Callers : DiscoverBegin(p)
    \/ \E p \in Callers : DiscoverCheckDir(p)
    \/ \E p \in Callers : DiscoverScanEventDir(p)
    \/ \E p \in Callers : DiscoverScanWildcardDirs(p)
    \/ \E p \in Callers : DiscoverStore(p)
    \/ ClockTick
    \/ ToggleAgentsDir

(***************************************************************************)
(* AgentManager._should_run_agent                                          *)
(* Strings that are matched or cut are sequences of tokens: the ref        *)
(* refs/heads/release/1.2 is <<"refs/heads/", "release/", "1.2">> and the  *)
(* pattern release/* is <<"release/", "*">>.                               *)
(***************************************************************************)
Range(s) == {s[i] : i \in 1..Len(s)}

\* fnmatch.fnmatch(name, pattern): * matches any run of characters, / included
RECURSIVE fnmatch(_, _)
fnmatch(name, pattern) ==
    IF pattern = <<>> THEN name = <<>>
    ELSE IF Head(pattern) = "*"
         THEN \/ fnmatch(name, Tail(pattern))
              \/ (name # <<>> /\ fnmatch(Tail(name), pattern))
         ELSE /\ name # <<>>
              /\ Head(name) = Head(pattern)
              /\ fnmatch(Tail(name), Tail(pattern))

\* any(fnmatch.fnmatch(n, p) for n in names for p in patterns)
AnyMatch(names, patterns) ==
    \E n \in names : \E p \in Range(patterns) : fnmatch(n, p)

\* str.replace(prefix, ""): every occurrence is removed
StrReplace(str, prefix) ==
    LET keep(t) == t # prefix IN SelectSeq(str, keep)

\* str.startswith(prefix)
StartsWith(str, prefix) == str # <<>> /\ str[1] = prefix

\* Optional[int]: None is -1
NoneInt == 0 - 1

\* truth value of an Optional[int] in `if x and ...`
TruthyUnlessZero(n) == n # 0

Truthy(n) == n # NoneInt /\ n # 0

RECURSIVE TotalFilesChanged(_)
TotalFilesChanged(commits) ==
    IF commits = <<>> THEN 0
    ELSE Len(Head(commits).added) + Len(Head(commits).removed)
           + Len(Head(commits).modified) + TotalFilesChanged(Tail(commits))

\* the set changed_files built from all commits
ChangedFiles(commits) ==
    UNION { Range(commits[i].added) \cup Range(commits[i].removed)
              \cup Range(commits[i].modified) : i \in 1..Len(commits) }

\* lines 282-286
BranchPasses(t, e) ==
    (t.branches # <<>> /\ e.ref # <<>>)
        => AnyMatch({StrReplace(e.ref, "refs/heads/")}, t.branches)

\* lines 288-296
TagPasses(t, e) ==
    (t.tags # <<>> /\ e.ref # <<>>)
        => /\ StartsWith(e.ref, "refs/tags/")
           /\ AnyMatch({StrReplace(e.ref, "refs/tags/")}, t.tags)

\* lines 298-301
EventActionPasses(t, e) ==
    (t.event_actions # <<>> /\ e.action # "")
        => e.action \in Range(t.event_actions)

\* lines 303-316
FileCountPasses(t, e) ==
    e.commits # <<>>
        => /\ ~(Truthy(t.files_changed_min)
                  /\ TotalFilesChanged(e.commits) < t.files_changed_min)
           /\ ~(Truthy(t.files_changed_max)
                  /\ TotalFilesChanged(e.commits) > t.files_changed_max)

\* lines 318-331
PathPasses(t, e) ==
    (t.paths # <<>> /\ e.commits # <<>>)
        => AnyMatch(ChangedFiles(e.commits), t.paths)

\* lines 333-342
FilePatternPasses(t, files) ==
    (t.files_changed # <<>> /\ files # <<>>)
        => AnyMatch(Range(files), t.files_changed)

CategoryPasses(cat, t, e, files) ==
    CASE cat = "branch" -> BranchPasses(t, e)
      [] cat = "tag" -> TagPasses(t, e)
      [] cat = "event_action" -> EventActionPasses(t, e)
      [] cat = "file_count" -> FileCountPasses(t, e)
      [] cat = "path" -> PathPasses(t, e)
      [] cat = "file_pattern" -> FilePatternPasses(t, files)

\* the order of the blocks of _should_run_agent
CategoryOrderConditionsFirst ==
    <<"conditions", "branch", "tag", "event_action", "file_count", "path", "file_pattern">>

CategoryOrder ==
    <<"branch", "tag", "event_action", "file_count", "path", "file_pattern", "conditions">>

\* lines 354-367: a condition is a template whose rendering is eval()ed; here a
\* condition is what that does for the event at hand: "truthy", "falsy",
\* "render_error" (Template()/render raises) or "eval_error" (eval raises).
\* try ... except Exception: return False
ConditionOutcomeUnguarded(condition) ==
    CASE condition = "truthy" -> "pass"
      [] condition = "falsy" -> "false"
      [] OTHER -> "raise"

ConditionOutcome(condition) ==
    IF condition = "truthy" THEN "pass" ELSE "false"

StartEval ==
    [pc |-> 1, cond |-> 1, decision |-> "none", trace |-> <<>>, rendered |-> 0]

\* return True / return False / an exception leaves _should_run_agent
Decide(st, d) == [st EXCEPT !.decision = d, !.pc = Len(CategoryOrder) + 1]

\* one block of _should_run_agent (one condition of the conditions loop)
EvalStep(st, t, e, files) ==
    LET cat == CategoryOrder[st.pc]
        seen == [st EXCEPT !.trace = IF st.cond = 1 THEN Append(st.trace, cat) ELSE st.trace]
        after == IF st.pc = Len(CategoryOrder)
                 THEN Decide(seen, "true")
                 ELSE [seen EXCEPT !.pc = st.pc + 1, !.cond = 1]
    IN  IF cat = "conditions"
        THEN IF st.cond > Len(t.conditions)
             THEN after
             ELSE LET o == ConditionOutcome(t.conditions[st.cond])
                      r == [seen EXCEPT !.rendered = st.rendered + 1, !.cond = st.cond + 1]
                  IN  CASE o = "pass" -> r
                        [] o = "false" -> Decide(r, "false")
                        [] o = "raise" -> Decide(r, "raised")
        ELSE IF CategoryPasses(cat, t, e, files)
             THEN after
             ELSE Decide(seen, "false")

\* the whole of _should_run_agent
RECURSIVE RunEval(_, _, _, _)
RunEval(st, t, e, files) ==
    IF st.decision # "none" THEN st ELSE RunEval(EvalStep(st, t, e, files), t, e, files)

ShouldRunAgent(t, e, files) == RunEval(StartEval, t, e, files).decision

NoTriggers ==
    [branches |-> <<>>, tags |-> <<>>, event_actions |-> <<>>,
     files_changed_min |-> NoneInt, files_changed_max |-> NoneInt,
     paths |-> <<>>, files_changed |-> <<>>, conditions |-> <<>>]

ConditionLists ==
    { <<"truthy", "truthy">>, <<"truthy", "falsy">>, <<"falsy", "truthy">>,
      <<"render_error">>, <<"truthy", "eval_error">>, <<"eval_error", "falsy">> }

\* trigger specifications: no constraint, one constraint, and constraints
\* followed by conditions
TriggerConfigs ==
    { NoTriggers,
      [NoTriggers EXCEPT !.branches = << <<"main">>, <<"release/", "*">> >>],
      [NoTriggers EXCEPT !.tags = << <<"v", "*">> >>],
      [NoTriggers EXCEPT !.event_actions = <<"opened">>],
      [NoTriggers EXCEPT !.files_changed_min = 2],
      [NoTriggers EXCEPT !.files_changed_max = 1],
      [NoTriggers EXCEPT !.files_changed_min = 1, !.files_changed_max = 2],
      [NoTriggers EXCEPT !.paths = << <<"src/", "*">> >>],
      [NoTriggers EXCEPT !.files_changed = << <<"*", ".py">> >>],
      [NoTriggers EXCEPT !.branches = << <<"*">> >>],
      [NoTriggers EXCEPT !.files_changed_min = 0, !.files_changed_max = 0],
      [NoTriggers EXCEPT !.tags = << <<"v", "*">> >>, !.event_actions = <<"opened">>] }
    \cup { [NoTriggers EXCEPT !.conditions = c] : c \in ConditionLists }
    \cup { [NoTriggers EXCEPT !.branches = << <<"main">> >>, !.conditions = c] :
              c \in ConditionLists }
    \cup { [NoTriggers EXCEPT !.paths = << <<"docs/", "*">> >>, !.conditions = c] :
              c \in ConditionLists }

SrcAppPy == <<"src/", "app", ".py">>
DocsReadme == <<"docs/", "readme", ".md">>

NoCommit == [added |-> <<>>, removed |-> <<>>, modified |-> <<>>]

CommitLists ==
    { <<>>,
      << [NoCommit EXCEPT !.modified = <<SrcAppPy>>] >>,
      << [NoCommit EXCEPT !.added = <<DocsReadme>>],
         [NoCommit EXCEPT !.modified = <<DocsReadme>>, !.removed = <<SrcAppPy>>] >> }

Refs ==
    { <<>>,
      <<"refs/heads/", "main">>,
      <<"refs/heads/", "release/", "1.2">>,
      <<"refs/heads/", "dev">>,
      <<"refs/tags/", "v", "1">>,
      <<"refs/pull/", "7", "/merge">> }

Events ==
    [ref : Refs, action : {"", "opened", "closed"}, commits : CommitLists]

FileChangeLists == { <<>>, <<SrcAppPy>>, <<DocsReadme>> }

TrigStep ==
    /\ trig_eval.decision = "none"
    /\ trig_eval' = EvalStep(trig_eval, trig_triggers, trig_event, trig_files)
    /\ UNCHANGED <<trig_triggers, trig_event, trig_files>>
    /\ UNCHANGED notTrig

TrigInit ==
    /\ trig_triggers \in TriggerConfigs
    /\ trig_event \in Events
    /\ trig_files \in FileChangeLists
    /\ trig_eval = StartEval

TrigNext == TrigStep

(***************************************************************************)
(* AgentManager.filter_agents                                              *)
(***************************************************************************)
Priorities == {10, 100}

FilterTriggerConfigs ==
    { NoTriggers,
      [NoTriggers EXCEPT !.branches = << <<"main">>, <<"release/", "*">> >>],
      [NoTriggers EXCEPT !.files_changed = << <<"*", ".py">> >>],
      [NoTriggers EXCEPT !.conditions = <<"truthy", "falsy">>],
      [NoTriggers EXCEPT !.conditions = <<"render_error">>],
      [NoTriggers EXCEPT !.conditions = <<"truthy", "eval_error">>] }

FilterAgentLists ==
    UNION { [1..n -> [triggers : FilterTriggerConfigs, priority : Priorities]] :
              n \in 0..MaxDiscovered }

\* a push to main, a push to dev, and an opened pull request; diff_files is
\* what git diff --name-status before..after lists
FilterEvents ==
    { [ref |-> <<"refs/heads/", "main">>, action |-> "",
       commits |-> << [NoCommit EXCEPT !.modified = <<SrcAppPy>>] >>,
       before_after |-> TRUE, diff_files |-> <<SrcAppPy>>],
      [ref |-> <<"refs/heads/", "dev">>, action |-> "",
       commits |-> << [NoCommit EXCEPT !.added = <<DocsReadme>>] >>,
       before_after |-> TRUE, diff_files |-> <<DocsReadme>>],
      [ref |-> <<"refs/pull/", "7", "/merge">>, action |-> "opened",
       commits |-> <<>>,
       before_after |-> FALSE, diff_files |-> <<>>] }

\* extract_file_changes_from_event inside filter_agents' try/except:
\* get_file_changes for an event with before and after, [] otherwise and
\* whenever git fails
ExtractFileChanges(event, git_ok) ==
    IF event.before_after /\ git_ok THEN event.diff_files ELSE <<>>

\* list.sort(key=priority) keeps an element before a later one of equal key
StaysBeforeStrict(key_earlier, key_later) == key_earlier < key_later

StaysBefore(key_earlier, key_later) == key_earlier <= key_later

\* filtered_agents.sort(key=lambda a: a.priority), on indices into agents
RECURSIVE SortByPriority(_, _)
SortByPriority(s, agent_list) ==
    IF s = <<>> THEN <<>>
    ELSE LET sorted == SortByPriority(SubSeq(s, 1, Len(s) - 1), agent_list)
             x == s[Len(s)]
             n == Cardinality({ j \in 1..Len(sorted) :
                      StaysBefore(agent_list[sorted[j]].priority, agent_list[x].priority) })
         IN  SubSeq(sorted, 1, n) \o <<x>> \o SubSeq(sorted, n + 1, Len(sorted))

FilterExtract ==
    /\ flt_state = "start"
    /\ \E git_ok \in BOOLEAN : flt_files' = ExtractFileChanges(flt_event, git_ok)
    /\ flt_state' = "loop"
    /\ UNCHANGED <<flt_agents, flt_event, flt_next, flt_filtered>>
    /\ UNCHANGED notFlt

\* one iteration of the for loop; an exception out of _should_run_agent is
\* not caught by filter_agents
FilterEvaluate ==
    /\ flt_state = "loop"
    /\ flt_next <= Len(flt_agents)
    /\ LET d == ShouldRunAgent(flt_agents[flt_next].triggers, flt_event, flt_files)
       IN  /\ flt_state' = IF d = "raised" THEN "raised" ELSE "loop"
           /\ flt_next' = IF d = "raised" THEN flt_next ELSE flt_next + 1
           /\ flt_filtered' = IF d = "true" THEN Append(flt_filtered, flt_next)
                              ELSE flt_filtered
    /\ UNCHANGED <<flt_agents, flt_event, flt_files>>
    /\ UNCHANGED notFlt

\* end of the loop: sort and return
FilterReturn ==
    /\ flt_state = "loop"
    /\ flt_next > Len(flt_agents)
    /\ flt_filtered' = SortByPriority(flt_filtered, flt_agents)
    /\ flt_state' = "returned"
    /\ UNCHANGED <<flt_agents, flt_event, flt_files, flt_next>>
    /\ UNCHANGED notFlt

FltInit ==
    /\ flt_agents \in FilterAgentLists
    /\ flt_event \in FilterEvents
    /\ flt_files = <<>>
    /\ flt_next = 1
    /\ flt_filtered = <<>>
    /\ flt_state = "start"

FltNext ==
    \/ FilterExtract
    \/ FilterEvaluate
    \/ FilterReturn

\* no filter_agents call in progress
FltIdle ==
    /\ flt_agents = <<>>
    /\ flt_event = [ref |-> <<>>, action |-> "", commits |-> <<>>,
                    before_after |-> FALSE, diff_files |-> <<>>]
    /\ flt_files = <<>>
    /\ flt_next = 1
    /\ flt_filtered = <<>>
    /\ flt_state = "returned"

(***************************************************************************)
(* AgentManager._handle_status_check: the state of the status check        *)
(* A text is a sequence of characters, a character a pair <<letter, upper>>.*)
(***************************************************************************)
Chars == {"a", "b"} \X BOOLEAN

Texts(n) == UNION { [1..m -> Chars] : m \in 0..n }

\* str.lower()
Lower(text) == [i \in 1..Len(text) |-> <<text[i][1], FALSE>>]

\* keyword in text (substring; the empty keyword is in every text)
Contains(text, keyword) ==
    \E i \in 0..(Len(text) - Len(keyword)) :
        SubSeq(text, i + 1, i + Len(keyword)) = keyword

\* for keyword in keywords: if keyword.lower() in output.lower(): ... break
KeywordFound(keywords, output) ==
    \E j \in 1..Len(keywords) : Contains(Lower(output), Lower(keywords[j]))

\* lines 847-863
StatusCheckStateSuccessFirst(failure_on, success_on, output) ==
    IF success_on # <<>> /\ KeywordFound(success_on, output) THEN "success"
    ELSE IF failure_on # <<>> /\ KeywordFound(failure_on, output) THEN "failure"
    ELSE IF success_on # <<>> THEN "error"
    ELSE "success"

StatusCheckState(failure_on, success_on, output) ==
    LET state1 == IF failure_on # <<>> /\ KeywordFound(failure_on, output)
                  THEN "failure" ELSE "success"
    IN  IF state1 = "success" /\ success_on # <<>>
        THEN IF KeywordFound(success_on, output) THEN "success" ELSE "error"
        ELSE state1

\* keyword lists: none, one keyword, two keywords, mixed case
KeywordLists ==
    { <<>>,
      << <<<<"a", FALSE>>>> >>,
      << <<<<"b", TRUE>>, <<"a", FALSE>>>> >>,
      << <<<<"a", TRUE>>, <<"a", TRUE>>>>, <<<<"b", FALSE>>>> >> }

ComputeStatusCheckState ==
    /\ st_state = "none"
    /\ st_state' = StatusCheckState(st_failure_on, st_success_on, st_output)
    /\ UNCHANGED <<st_output, st_failure_on, st_success_on>>
    /\ UNCHANGED notSt

StInit ==
    /\ st_output \in Texts(MaxOutputLen)
    /\ st_failure_on \in KeywordLists
    /\ st_success_on \in KeywordLists
    /\ st_state = "none"

StNext == ComputeStatusCheckState

(***************************************************************************)
(* AgentManager._handle_agent_output                                       *)
(* An output text is [src, rendered, len, truncated]: where it came from,  *)
(* whether the output template was applied, its length, and whether it was *)
(* cut.                                                                    *)
(***************************************************************************)
\* len("...\n[Output truncated]")
MarkerLen == 22

\* parameters of GitHubAPI.__init__ after self, and arguments the handlers pass
GitHubAPIInitParams == 2
GitHubAPICallArgs == 1

LocalDestinations == {"console", "file", "artifact"}
NetworkDestinations == {"status_check", "comment", "create_issue"}

\* OutputDestination
OutputDestinations == LocalDestinations \cup NetworkDestinations \cup {"pr_review", "issue"}

CliOutput == [src |-> "cli", rendered |-> FALSE, len |-> 10, truncated |-> FALSE]

\* lines 733-736: output = f.read()
FromOutputFile == [src |-> "file", rendered |-> FALSE, len |-> 30, truncated |-> FALSE]

\* lines 752-767: output = render_template_with_file_inclusion(template, output=output, ...)
Rendered(text) == [text EXCEPT !.rendered = TRUE, !.len = @ + 5]

\* lines 776-777
Truncated(text, max_length) ==
    IF Truthy(max_length) /\ text.len > max_length
    THEN [text EXCEPT !.len = max_length + MarkerLen, !.truncated = TRUE]
    ELSE text

\* the order of the blocks of _handle_agent_output
RouteStagesTruncateFirst == <<"read_file", "truncate", "template", "deliver">>

RouteStages == <<"read_file", "template", "truncate", "deliver">>

\* GitHubAPI(self._github_token) against __init__(self, settings, github_token)
ConstructGitHubAPI(args) == IF args = GitHubAPIInitParams THEN "ok" ELSE "TypeError"

\* lines 928-932: the pull_request's number, else the issue's
CommentTarget(target) ==
    CASE target \in {"pull_request", "both"} -> 7
      [] target = "issue" -> 3
      [] OTHER -> 0

NoRouteLog == [read |-> "skipped", template |-> "skipped", deliver |-> "none"]

RouteConfigs ==
    { c \in [destination : OutputDestinations, output_file : BOOLEAN, template : BOOLEAN,
             max_length : {NoneInt, 0, 12}, file_path : BOOLEAN, token : BOOLEAN,
             target : {"none", "pull_request", "issue", "both"}] :
        /\ c.destination # "file" => c.file_path
        /\ c.destination # "comment" => c.target = "none"
        /\ c.destination \notin NetworkDestinations => c.token }

RouteAdvance ==
    /\ rt_stages' = Append(rt_stages, RouteStages[rt_pc])
    /\ rt_pc' = rt_pc + 1

\* lines 732-749
RouteReadFile ==
    /\ rt_pc <= Len(RouteStages) /\ RouteStages[rt_pc] = "read_file"
    /\ IF rt_cfg.output_file
       THEN \E ok \in BOOLEAN :
               /\ rt_text' = IF ok THEN FromOutputFile ELSE rt_text
               /\ rt_log' = [rt_log EXCEPT !.read = IF ok THEN "ok" ELSE "failed"]
       ELSE UNCHANGED <<rt_text, rt_log>>
    /\ RouteAdvance
    /\ UNCHANGED <<rt_cfg, rt_api, rt_delivered>>
    /\ UNCHANGED notRt

\* lines 751-773
RouteTemplate ==
    /\ rt_pc <= Len(RouteStages) /\ RouteStages[rt_pc] = "template"
    /\ IF rt_cfg.template
       THEN \E ok \in BOOLEAN :
               /\ rt_text' = IF ok THEN Rendered(rt_text) ELSE rt_text
               /\ rt_log' = [rt_log EXCEPT !.template = IF ok THEN "ok" ELSE "failed"]
       ELSE UNCHANGED <<rt_text, rt_log>>
    /\ RouteAdvance
    /\ UNCHANGED <<rt_cfg, rt_api, rt_delivered>>
    /\ UNCHANGED notRt

\* lines 775-777
RouteTruncate ==
    /\ rt_pc <= Len(RouteStages) /\ RouteStages[rt_pc] = "truncate"
    /\ rt_text' = Truncated(rt_text, rt_cfg.max_length)
    /\ RouteAdvance
    /\ UNCHANGED <<rt_cfg, rt_log, rt_api, rt_delivered>>
    /\ UNCHANGED notRt

\* lines 811-824 and the handlers: each handler's body is inside
\* try/except Exception that logs, and begins with GitHubAPI(self._github_token)
NetworkDelivery(cfg) ==
    IF ~cfg.token THEN [log |-> "no_credential", api |-> <<>>]
    ELSE IF ConstructGitHubAPI(GitHubAPICallArgs) # "ok"
         THEN [log |-> "error_logged", api |-> <<>>]
         ELSE CASE cfg.destination = "status_check" ->
                     [log |-> "called", api |-> <<[op |-> "create_status_check", number |-> 0]>>]
                [] cfg.destination = "comment" ->
                     IF CommentTarget(cfg.target) = 0
                     THEN [log |-> "no_target", api |-> <<>>]
                     ELSE [log |-> "called",
                           api |-> <<[op |-> "create_comment", number |-> CommentTarget(cfg.target)]>>]
                [] cfg.destination = "create_issue" ->
                     [log |-> "called", api |-> <<[op |-> "create_issue", number |-> 0]>>]

\* lines 779-834
RouteDeliver ==
    /\ rt_pc <= Len(RouteStages) /\ RouteStages[rt_pc] = "deliver"
    /\ CASE rt_cfg.destination = "console" ->
              /\ rt_delivered' = <<rt_text>>
              /\ rt_log' = [rt_log EXCEPT !.deliver = "printed"]
              /\ rt_api' = rt_api
         [] rt_cfg.destination = "file" /\ ~rt_cfg.file_path ->
              /\ rt_log' = [rt_log EXCEPT !.deliver = "no_file_path"]
              /\ UNCHANGED <<rt_delivered, rt_api>>
         [] rt_cfg.destination \in {"file", "artifact"} /\ rt_cfg.file_path ->
              \* mkdir / open / write, not guarded
              \E ok \in BOOLEAN :
                 /\ rt_delivered' = IF ok THEN <<rt_text>> ELSE rt_delivered
                 /\ rt_log' = [rt_log EXCEPT !.deliver = IF ok THEN "written" ELSE "raised"]
                 /\ rt_api' = rt_api
         [] rt_cfg.destination \in NetworkDestinations ->
              /\ rt_api' = rt_api \o NetworkDelivery(rt_cfg).api
              /\ rt_log' = [rt_log EXCEPT !.deliver = NetworkDelivery(rt_cfg).log]
              /\ rt_delivered' = rt_delivered
         [] OTHER ->
              /\ rt_log' = [rt_log EXCEPT !.deliver = "log_only"]
              /\ UNCHANGED <<rt_delivered, rt_api>>
    /\ RouteAdvance
    /\ UNCHANGED <<rt_cfg, rt_text>>
    /\ UNCHANGED notRt

RtInit ==
    /\ rt_cfg \in RouteConfigs
    /\ rt_text = CliOutput
    /\ rt_pc = 1
    /\ rt_stages = <<>>
    /\ rt_log = NoRouteLog
    /\ rt_api = <<>>
    /\ rt_delivered = <<>>

RtNext ==
    \/ RouteReadFile
    \/ RouteTemplate
    \/ RouteTruncate
    \/ RouteDeliver

\* no _handle_agent_output call in progress
RtIdle ==
    /\ rt_cfg = [destination |-> "console", output_file |-> FALSE, template |-> FALSE,
                 max_length |-> NoneInt, file_path |-> TRUE, token |-> TRUE, target |-> "none"]
    /\ rt_text = CliOutput
    /\ rt_pc = Len(RouteStages) + 1
    /\ rt_stages = RouteStages
    /\ rt_log = [NoRouteLog EXCEPT !.deliver = "printed"]
    /\ rt_api = <<>>
    /\ rt_delivered = <<CliOutput>>

(***************************************************************************)
(* TemplateFileIncluder (template_functions.py)                            *)
(* A path is the sequence of its components; <<>> is Path('.'), the root.  *)
(***************************************************************************)
\* the file and directory names used, in the order of their strings
NameRank == [a |-> 1, b_py |-> 2, c_py |-> 3, d |-> 4, e_py |-> 5]

ChangedPaths ==
    { <<"a", "b_py">>, <<"c_py">>, <<"a", "d", "e_py">>, <<"b_py">> }

\* Path.__lt__: the component tuples are compared, component by component
RECURSIVE PathLess(_, _)
PathLess(p, q) ==
    IF q = <<>> THEN FALSE
    ELSE IF p = <<>> THEN TRUE
    ELSE IF Head(p) = Head(q) THEN PathLess(Tail(p), Tail(q))
    ELSE NameRank[Head(p)] < NameRank[Head(q)]

\* sorted(matching_files)
RECURSIVE SortPaths(_)
SortPaths(paths) ==
    IF paths = {} THEN <<>>
    ELSE LET least == CHOOSE p \in paths : \A q \in paths \ {p} : PathLess(p, q)
         IN  <<least>> \o SortPaths(paths \ {least})

\* Path.parent; the parent of the root "." and of the anchor "/" is itself
Parent(path) ==
    IF path = <<>> \/ path = <<"/">> THEN path ELSE SubSeq(path, 1, Len(path) - 1)

\* lines 34-47: the root is added inside the loop over the changed files
changed_file_dirs(files) ==
    UNION { (IF Parent(files[i]) # <<>> THEN {Parent(files[i])} ELSE {}) \cup {<<>>} :
              i \in 1..Len(files) }

\* lines 63-68: the parents of a directory up to the root
RECURSIVE Ancestors(_)
Ancestors(dir) == IF dir = <<>> THEN {} ELSE {Parent(dir)} \cup Ancestors(Parent(dir))

\* lines 49-73
changed_file_dirs_and_ancestors(files) ==
    UNION { {d} \cup Ancestors(d) : d \in changed_file_dirs(files) } \cup {<<>>}

\* lines 163-167: one pattern per changed file
ResolveChangedFiles(files) == files

\* lines 175-209: glob of a path without wildcard characters, is_file()
FindMatchingFiles(patterns, workspace) ==
    { patterns[i] : i \in { j \in 1..Len(patterns) : workspace[patterns[j]] # "missing" } }

\* line 101: if content.strip()
HasContentOrBlank(content) == content \in {"text", "blank"}

HasContent(content) == content = "text"

\* lines 98-111: a File block per non-empty file, an error comment per
\* unreadable file
RECURSIVE Blocks(_, _)
Blocks(sorted, workspace) ==
    IF sorted = <<>> THEN <<>>
    ELSE LET path == Head(sorted)
             rest == Blocks(Tail(sorted), workspace)
         IN  IF workspace[path] = "unreadable"
             THEN <<[kind |-> "error", path |-> path]>> \o rest
             ELSE IF HasContent(workspace[path])
                  THEN <<[kind |-> "file", path |-> path]>> \o rest
                  ELSE rest

\* include_files("$CHANGED_FILES")
include_files(files, workspace) ==
    Blocks(SortPaths(FindMatchingFiles(ResolveChangedFiles(files), workspace)), workspace)

ChangedFileLists == UNION { [1..n -> ChangedPaths] : n \in 0..MaxChanged }

Workspaces == [ChangedPaths -> {"missing", "blank", "text", "unreadable"}]

IncludeChangedFiles ==
    /\ "include" \notin inc_done
    /\ inc_blocks' = include_files(inc_files, inc_workspace)
    /\ inc_done' = inc_done \cup {"include"}
    /\ UNCHANGED <<inc_files, inc_workspace, inc_dirs>>
    /\ UNCHANGED notInc

ResolveChangedDirs ==
    /\ "dirs" \notin inc_done
    /\ inc_dirs' = [dirs |-> changed_file_dirs(inc_files),
                    ancestors |-> changed_file_dirs_and_ancestors(inc_files)]
    /\ inc_done' = inc_done \cup {"dirs"}
    /\ UNCHANGED <<inc_files, inc_workspace, inc_blocks>>
    /\ UNCHANGED notInc

IncInit ==
    /\ inc_files \in ChangedFileLists
    /\ inc_workspace \in Workspaces
    /\ inc_blocks = <<>>
    /\ inc_dirs = [dirs |-> {}, ancestors |-> {}]
    /\ inc_done = {}

IncNext ==
    \/ IncludeChangedFiles
    \/ ResolveChangedDirs

\* no template being rendered
IncIdle ==
    /\ inc_files = <<>>
    /\ inc_workspace = [p \in ChangedPaths |-> "missing"]
    /\ inc_blocks = <<>>
    /\ inc_dirs = [dirs |-> {}, ancestors |-> {}]
    /\ inc_done = {"include", "dirs"}

(***************************************************************************)
(* _load_agents_from_directory and _load_agent_definition                  *)
(* A definition file is [ext, content]; content says what loading it gives: *)
(* "valid" (enabled), "disabled", "empty" (yaml.safe_load gives nothing),  *)
(* "parse_error" (not YAML) or "invalid" (the AgentDefinition constructor raises). *)
(***************************************************************************)
DefinitionFiles ==
    { [ext |-> "yml", content |-> "valid"],
      [ext |-> "yml", content |-> "disabled"],
      [ext |-> "yml", content |-> "parse_error"],
      [ext |-> "yml", content |-> "empty"],
      [ext |-> "yaml", content |-> "valid"],
      [ext |-> "yaml", content |-> "invalid"] }

Listings == UNION { [1..n -> DefinitionFiles] : n \in 0..MaxFiles }

\* directory.glob("*.yml") and then directory.glob("*.yaml"), as positions
GlobOrder(listing, d) ==
    LET pos == [i \in 1..Len(listing) |-> <<d, i>>]
    IN  SelectSeq(pos, LAMBDA x : listing[x[2]].ext = "yml")
          \o SelectSeq(pos, LAMBDA x : listing[x[2]].ext = "yaml")

\* the event directory, then the wildcard directory
ScanOrder(dirs) == GlobOrder(dirs[1], 1) \o GlobOrder(dirs[2], 2)

\* _load_agent_definition: the definition, or None for an empty file and when
\* anything raises (lines 183-210)
load_agent_definition(content) ==
    CASE content = "valid" -> [defined |-> TRUE, enabled |-> TRUE]
      [] content = "disabled" -> [defined |-> TRUE, enabled |-> FALSE]
      [] OTHER -> [defined |-> FALSE, enabled |-> FALSE]

\* if agent_def and agent_def.enabled
KeepsDefined(agent_def) == agent_def.defined

Keeps(agent_def) == agent_def.defined /\ agent_def.enabled

\* one iteration of the glob loops (lines 150-173)
LoadFile ==
    /\ ld_state = "scanning"
    /\ ld_next <= Len(ScanOrder(ld_dirs))
    /\ LET at == ScanOrder(ld_dirs)[ld_next]
           agent_def == load_agent_definition(ld_dirs[at[1]][at[2]].content)
       IN  ld_agents' = IF Keeps(agent_def) THEN Append(ld_agents, at) ELSE ld_agents
    /\ ld_next' = ld_next + 1
    /\ UNCHANGED <<ld_dirs, ld_state>>
    /\ UNCHANGED notLd

\* return agents
LoadReturn ==
    /\ ld_state = "scanning"
    /\ ld_next > Len(ScanOrder(ld_dirs))
    /\ ld_state' = "returned"
    /\ UNCHANGED <<ld_dirs, ld_next, ld_agents>>
    /\ UNCHANGED notLd

LdInit ==
    /\ ld_dirs \in [1..2 -> Listings]
    /\ ld_next = 1
    /\ ld_agents = <<>>
    /\ ld_state = "scanning"

LdNext ==
    \/ LoadFile
    \/ LoadReturn

\* no scan in progress
LdIdle ==
    /\ ld_dirs = [d \in 1..2 |-> <<>>]
    /\ ld_next = 1
    /\ ld_agents = <<>>
    /\ ld_state = "returned"

(***************************************************************************)
(* The child-process waits of one agent execution: the agent CLI           *)
(* (_execute_agent_cli) and the git commands of the branch workflow         *)
(* (run_git_command).                                                      *)
(***************************************************************************)
WorkflowGitCalls ==
    <<"branch_show_current", "checkout_base", "pull", "checkout_b", "add",
      "diff_cached", "commit", "rev_parse", "push">>

CleanupGitCalls == <<"cleanup_show_current", "cleanup_checkout">>

ChildCalls ==
    {"agent_cli"} \cup Range(WorkflowGitCalls) \cup Range(CleanupGitCalls)

\* the wait is inside asyncio.wait_for(..., timeout=timeout_seconds)
TimerArmed(c) == c = "agent_cli"

\* the c that follows when the process of c exited with success (ok)
\* or with a non-zero code
NextCalls(c, ok, auto) ==
    CASE c = "agent_cli" ->
            IF ok /\ auto THEN {"branch_show_current"} ELSE {"done"}
      [] c = "branch_show_current" ->
            IF ok THEN {"checkout_base", "checkout_b"} ELSE {"cleanup_show_current"}
      [] c = "checkout_base" -> IF ok THEN {"pull"} ELSE {"cleanup_show_current"}
      [] c = "pull" -> IF ok THEN {"checkout_b"} ELSE {"cleanup_show_current"}
      [] c = "checkout_b" -> IF ok THEN {"add"} ELSE {"cleanup_show_current"}
      [] c = "add" -> IF ok THEN {"diff_cached"} ELSE {"cleanup_show_current"}
      [] c = "diff_cached" -> IF ok THEN {"commit", "done"} ELSE {"done"}
      [] c = "commit" -> IF ok THEN {"rev_parse"} ELSE {"cleanup_show_current"}
      [] c = "rev_parse" -> IF ok THEN {"push"} ELSE {"cleanup_show_current"}
      [] c = "push" -> IF ok THEN {"done"} ELSE {"cleanup_show_current"}
      [] c = "cleanup_show_current" ->
            IF ok THEN {"cleanup_checkout", "done"} ELSE {"done"}
      [] OTHER -> {"done"}

\* the result of the execution after call c: only the agent CLI decides it
ResultAfter(c, ok, result) ==
    IF c = "agent_cli" THEN (IF ok THEN "success" ELSE "failure") ELSE result

\* the exception _execute_agent_cli raises: TimeoutError when wait_for timed
\* out, CalledProcessError on a non-zero return code
ErrorAfter(c, outcome, error) ==
    IF c # "agent_cli" THEN error
    ELSE CASE outcome = "timeout" -> "TimeoutError"
           [] outcome = "nonzero" -> "CalledProcessError"
           [] OTHER -> error

\* asyncio.create_subprocess_exec, then the await of communicate()
ChildSpawn ==
    /\ ch_call # "done"
    /\ ~ch_wait
    /\ ch_wait' = TRUE
    /\ ch_elapsed' = 0
    /\ ch_running' = ch_running \cup {ch_call}
    /\ UNCHANGED <<ch_auto, ch_hangs, ch_call, ch_result, ch_error>>
    /\ UNCHANGED notCh

\* the process exits: communicate() returns, the return code decides
ChildExits ==
    /\ ch_wait
    /\ ch_call \notin ch_hangs
    /\ \E ok \in BOOLEAN :
          /\ ch_call' \in NextCalls(ch_call, ok, ch_auto)
          /\ ch_result' = ResultAfter(ch_call, ok, ch_result)
          /\ ch_error' = ErrorAfter(ch_call, IF ok THEN "zero" ELSE "nonzero", ch_error)
    /\ ch_running' = ch_running \ {ch_call}
    /\ ch_wait' = FALSE
    /\ ch_elapsed' = 0
    /\ UNCHANGED <<ch_auto, ch_hangs>>
    /\ UNCHANGED notCh

\* time passes on a wait with a timer
ChildTick ==
    /\ ch_wait
    /\ TimerArmed(ch_call)
    /\ ch_elapsed < TimeoutSeconds
    /\ ch_elapsed' = ch_elapsed + WaitStep
    /\ UNCHANGED <<ch_auto, ch_hangs, ch_call, ch_wait, ch_result, ch_running, ch_error>>
    /\ UNCHANGED notCh

\* asyncio.TimeoutError: wait_for cancels communicate() and the handler raises
\* TimeoutError; nothing calls process.kill() or process.terminate(), the
\* process stays as it is
ChildTimeout ==
    /\ ch_wait
    /\ TimerArmed(ch_call)
    /\ ch_elapsed >= TimeoutSeconds
    /\ ch_call' \in NextCalls(ch_call, FALSE, ch_auto)
    /\ ch_result' = ResultAfter(ch_call, FALSE, ch_result)
    /\ ch_error' = ErrorAfter(ch_call, "timeout", ch_error)
    /\ ch_running' = ch_running
    /\ ch_wait' = FALSE
    /\ ch_elapsed' = 0
    /\ UNCHANGED <<ch_auto, ch_hangs>>
    /\ UNCHANGED notCh

ChInit ==
    /\ ch_auto \in BOOLEAN
    /\ ch_hangs \in { h \in SUBSET ChildCalls : Cardinality(h) <= MaxHanging }
    /\ ch_call = "agent_cli"
    /\ ch_wait = FALSE
    /\ ch_elapsed = 0
    /\ ch_result = "none"
    /\ ch_running = {}
    /\ ch_error = ""

ChNext ==
    \/ ChildSpawn
    \/ ChildExits
    \/ ChildTick
    \/ ChildTimeout

\* no execution in progress
ChIdle ==
    /\ ch_auto = FALSE
    /\ ch_hangs = {}
    /\ ch_call = "done"
    /\ ch_wait = FALSE
    /\ ch_elapsed = 0
    /\ ch_result = "none"
    /\ ch_running = {}
    /\ ch_error = ""

(***************************************************************************)
(* _handle_agent_output, lines 775-777: the truncation, on texts           *)
(***************************************************************************)
\* "...\n[Output truncated]", as one character of its own
TruncationMarker == << <<"...[Output truncated]", FALSE>> >>

\* output[:n] of Python: the first n characters, or for a negative n all but
\* the last -n
Slice(output, n) ==
    LET upto == IF n >= 0 THEN n ELSE Len(output) + n
        stop == IF upto < 0 THEN 0 ELSE IF upto > Len(output) THEN Len(output) ELSE upto
    IN  SubSeq(output, 1, stop)

\* if agent.output.max_length and len(output) > agent.output.max_length:
\*     output = output[:agent.output.max_length] + "...\n[Output truncated]"
TruncateOutput(output, max_length) ==
    IF Truthy(max_length) /\ Len(output) > max_length
    THEN Slice(output, max_length) \o TruncationMarker
    ELSE output

\* None, a negative length, 0 and the lengths below the longest text
MaxLengths == {NoneInt, 0 - 2} \cup (0..(MaxOutputLen - 1))

TruncateStep ==
    /\ ~tr_done
    /\ tr_delivered' = TruncateOutput(tr_output, tr_max_length)
    /\ tr_done' = TRUE
    /\ UNCHANGED <<tr_output, tr_max_length>>
    /\ UNCHANGED notTr

TrInit ==
    /\ tr_output \in Texts(MaxOutputLen)
    /\ tr_max_length \in MaxLengths
    /\ tr_delivered = <<>>
    /\ tr_done = FALSE

TrNext == TruncateStep

\* no text to truncate
TrIdle ==
    /\ tr_output = <<>>
    /\ tr_max_length = NoneInt
    /\ tr_delivered = <<>>
    /\ tr_done = TRUE

(***************************************************************************)
(* TemplateFileIncluder._resolve_pattern_variables                         *)
(* A pattern is a sequence of atoms <<kind, path>>. "$ALL_UNIQUE_CHANGED_  *)
(* FILE_DIRS" is the atom DIRS and "_AND_THEIR_ANCESTORS" the atom ANC, so *)
(* that the longer token holds the shorter one as the strings do; a value  *)
(* put in for a token is the atom <<"path", p>>.                           *)
(***************************************************************************)
Atom(kind) == <<kind, <<>>>>

PathAtom(path) == <<"path", path>>

\* the text of each token
TokenText ==
    [ancestors |-> <<Atom("DIRS"), Atom("ANC")>>,
     dirs |-> <<Atom("DIRS")>>,
     workspace |-> <<Atom("WORKSPACE")>>,
     changed_files |-> <<Atom("CHANGED_FILES")>>]

\* the order of the if / elif chain
TokenOrderWorkspaceFirst == <<"workspace", "ancestors", "dirs", "changed_files">>

TokenOrder == <<"ancestors", "dirs", "workspace", "changed_files">>

\* sub in str
Occurs(str, sub) ==
    \E i \in 1..(Len(str) - Len(sub) + 1) : SubSeq(str, i, i + Len(sub) - 1) = sub

\* str.replace(sub, value): every occurrence, from the left, without overlap
RECURSIVE Replace(_, _, _)
Replace(str, sub, value) ==
    IF Len(str) < Len(sub) THEN str
    ELSE IF SubSeq(str, 1, Len(sub)) = sub
         THEN <<value>> \o Replace(SubSeq(str, Len(sub) + 1, Len(str)), sub, value)
         ELSE <<Head(str)>> \o Replace(Tail(str), sub, value)

\* the values of a token, in the order the code iterates over them (the order
\* of a set is the sorted one here)
TokenValues(tok, files, workspace) ==
    CASE tok = "ancestors" -> SortPaths(changed_file_dirs_and_ancestors(files))
      [] tok = "dirs" -> SortPaths(changed_file_dirs(files))
      [] tok = "workspace" -> <<workspace>>
      [] OTHER -> files

\* lines 138-173
resolve_pattern_variables(pattern, files, workspace) ==
    LET present == SelectSeq(TokenOrder, LAMBDA t : Occurs(pattern, TokenText[t]))
    IN  IF present = <<>> THEN <<pattern>>
        ELSE LET tok == Head(present)
                 values == TokenValues(tok, files, workspace)
             IN  [i \in 1..Len(values) |->
                     Replace(pattern, TokenText[tok], PathAtom(values[i]))]

\* str(self.workspace_path)
WorkspacePath == <<"workspace">>

PatternAtoms ==
    {Atom("DIRS"), Atom("ANC"), Atom("WORKSPACE"), Atom("CHANGED_FILES"), Atom("md")}

Patterns == UNION { [1..n -> PatternAtoms] : n \in 1..MaxPatternLen }

ResolvePattern ==
    /\ ~rp_done
    /\ rp_resolved' = resolve_pattern_variables(rp_pattern, rp_files, WorkspacePath)
    /\ rp_done' = TRUE
    /\ UNCHANGED <<rp_pattern, rp_files>>
    /\ UNCHANGED notRp

RpInit ==
    /\ rp_pattern \in Patterns
    /\ rp_files \in ChangedFileLists
    /\ rp_resolved = <<>>
    /\ rp_done = FALSE

RpNext == ResolvePattern

\* no pattern to resolve
RpIdle ==
    /\ rp_pattern = <<>>
    /\ rp_files = <<>>
    /\ rp_resolved = <<>>
    /\ rp_done = TRUE

(***************************************************************************)
(* GitHubActionEventProcessor.process_event and its statistics             *)
(***************************************************************************)
\* _is_event_enabled
is_event_enabled(settings, event_type) ==
    IF settings.disabled_events # {} /\ event_type \in settings.disabled_events
    THEN FALSE
    ELSE IF settings.enabled_events # {}
         THEN event_type \in settings.enabled_events
         ELSE TRUE

\* lines 373-375: the counters every call updates before the try
CountEvent(stats, event_type) ==
    [stats EXCEPT !.total_events = @ + 1,
                  !.events_by_type = [@ EXCEPT ![event_type] = @ + 1]]

\* one whole call of process_event for an event of the type, with the outcome
\* of handler.handle: a result with success, one without, or an exception
process_event(event_type, outcome) ==
    /\ ev_stats.total_events < MaxEvents
    /\ LET counted == CountEvent(ev_stats, event_type)
       IN  IF ~is_event_enabled(ev_settings, event_type)
           THEN \* lines 379-387: return before any of the two counters
                /\ ev_stats' = counted
                /\ ev_last' = [event_type |-> event_type, success |-> TRUE, disabled |-> TRUE]
           ELSE CASE outcome = "success" ->
                       /\ ev_stats' = [counted EXCEPT !.successful_events = @ + 1]
                       /\ ev_last' = [event_type |-> event_type, success |-> TRUE,
                                      disabled |-> FALSE]
                  [] OTHER ->
                       \* result.success is False (line 399), or except Exception (line 412)
                       /\ ev_stats' = [counted EXCEPT !.failed_events = @ + 1]
                       /\ ev_last' = [event_type |-> event_type, success |-> FALSE,
                                      disabled |-> FALSE]
    /\ UNCHANGED ev_settings
    /\ UNCHANGED notEv

NoEventResult == [event_type |-> "", success |-> FALSE, disabled |-> FALSE]

\* lines 340-346
EvInit ==
    /\ ev_settings \in [enabled_events : SUBSET EventTypes, disabled_events : SUBSET EventTypes]
    /\ ev_stats = [total_events |-> 0, successful_events |-> 0, failed_events |-> 0,
                   events_by_type |-> [t \in EventTypes |-> 0]]
    /\ ev_last = NoEventResult

EvNext ==
    \E event_type \in EventTypes, outcome \in {"success", "failure", "raise"} :
        process_event(event_type, outcome)

\* a processor that has processed nothing
EvIdle ==
    /\ ev_settings = [enabled_events |-> {}, disabled_events |-> {}]
    /\ ev_stats = [total_events |-> 0, successful_events |-> 0, failed_events |-> 0,
                   events_by_type |-> [t \in EventTypes |-> 0]]
    /\ ev_last = NoEventResult

(***************************************************************************)
(* changed_file_dirs_and_ancestors, loop by loop (lines 49-73). An         *)
(* absolute path begins with the component "/".                            *)
(***************************************************************************)
AbsolutePaths == { <<"/", "c_py">>, <<"/", "a", "b_py">> }

AnyPathLists == UNION { [1..n -> ChangedPaths \cup AbsolutePaths] : n \in 0..MaxChanged }

\* for dir_path in changed_dirs: dirs.add(dir_path); current = dir_path
AncestorsNextDir ==
    /\ an_pc = "for"
    /\ \E dir_path \in an_todo :
          /\ an_todo' = an_todo \ {dir_path}
          /\ an_dirs' = an_dirs \cup {dir_path}
          /\ an_current' = dir_path
    /\ an_pc' = "while"
    /\ UNCHANGED an_files
    /\ UNCHANGED notAn

\* while current != Path('.') and current.parts:
\*     current = current.parent; dirs.add(current)
\*     if current == Path('.'): break
AncestorsWhile ==
    /\ an_pc = "while"
    /\ IF an_current # <<>> /\ Len(an_current) > 0
       THEN /\ an_current' = Parent(an_current)
            /\ an_dirs' = an_dirs \cup {Parent(an_current)}
            /\ an_pc' = IF Parent(an_current) = <<>> THEN "for" ELSE "while"
       ELSE /\ an_pc' = "for"
            /\ UNCHANGED <<an_current, an_dirs>>
    /\ UNCHANGED <<an_files, an_todo>>
    /\ UNCHANGED notAn

\* dirs.add(Path('.')); self._ancestor_dirs_cache = dirs
AncestorsFinish ==
    /\ an_pc = "for"
    /\ an_todo = {}
    /\ an_dirs' = an_dirs \cup {<<>>}
    /\ an_pc' = "done"
    /\ UNCHANGED <<an_files, an_todo, an_current>>
    /\ UNCHANGED notAn

AnInit ==
    /\ an_files \in AnyPathLists
    /\ an_todo = changed_file_dirs(an_files)
    /\ an_current = <<>>
    /\ an_dirs = {}
    /\ an_pc = "for"

AnNext ==
    \/ AncestorsNextDir
    \/ AncestorsWhile
    \/ AncestorsFinish

\* the property is not being computed
AnIdle ==
    /\ an_files = <<>>
    /\ an_todo = {}
    /\ an_current = <<>>
    /\ an_dirs = {}
    /\ an_pc = "done"

(***************************************************************************)
(* Specifications                                                          *)
(***************************************************************************)
\* no run of execute_agents in progress
ExecIdle ==
    /\ agents = <<>>
    /\ token = FALSE
    /\ phase = <<>>
    /\ draft = <<>>
    /\ wf = <<>>
    /\ results = <<>>
    /\ runState = "returned"
    /\ head = MainBranch
    /\ remote = {}
    /\ prs = {}
    /\ gitTrace = <<>>

\* no discover_agents call in progress, nothing cached
DiscIdle ==
    /\ agentCache = <<>>
    /\ cacheTimestamp = 0
    /\ now = 0
    /\ agentsDirExists = TRUE
    /\ call = [p \in Callers |-> IdleCall]
    /\ loadedAt = <<>>
    /\ lastReturn = NoReturn

\* no _should_run_agent call in progress
TrigIdle ==
    /\ trig_triggers = NoTriggers
    /\ trig_event = [ref |-> <<>>, action |-> "", commits |-> <<>>]
    /\ trig_files = <<>>
    /\ trig_eval = Decide(StartEval, "true")

\* no status-check state being computed
StIdle ==
    /\ st_output = <<>>
    /\ st_failure_on = <<>>
    /\ st_success_on = <<>>
    /\ st_state = "success"

\* every component but the named one is idle
OthersIdle(component) ==
    /\ component = "exec" \/ ExecIdle
    /\ component = "disc" \/ DiscIdle
    /\ component = "trig" \/ TrigIdle
    /\ component = "flt" \/ FltIdle
    /\ component = "st" \/ StIdle
    /\ component = "rt" \/ RtIdle
    /\ component = "inc" \/ IncIdle
    /\ component = "ld" \/ LdIdle
    /\ component = "ch" \/ ChIdle
    /\ component = "tr" \/ TrIdle
    /\ component = "rp" \/ RpIdle
    /\ component = "ev" \/ EvIdle
    /\ component = "an" \/ AnIdle

Init == ExecInit /\ OthersIdle("exec")

Next == ExecNext

\* one run of execute_agents
Spec == Init /\ [][Next]_vars

DiscoverInit == DiscInit /\ OthersIdle("disc")

\* concurrent discover_agents calls on one AgentManager
SpecDiscover == DiscoverInit /\ [][DiscNext]_vars

TriggerInit == TrigInit /\ OthersIdle("trig")

\* one call of _should_run_agent
SpecTrigger == TriggerInit /\ [][TrigNext]_vars

FilterInit == FltInit /\ OthersIdle("flt")

\* one call of filter_agents
SpecFilter == FilterInit /\ [][FltNext]_vars

StatusInit == StInit /\ OthersIdle("st")

\* the status-check state computed for one output text
SpecStatus == StatusInit /\ [][StNext]_vars

RouteInit == RtInit /\ OthersIdle("rt")

\* one call of _handle_agent_output
SpecRoute == RouteInit /\ [][RtNext]_vars

IncludeInit == IncInit /\ OthersIdle("inc")

\* the file inclusion functions of one template rendering
SpecInclude == IncludeInit /\ [][IncNext]_vars

LoadInit == LdInit /\ OthersIdle("ld")

\* the directory scan of one discover_agents call
SpecLoad == LoadInit /\ [][LdNext]_vars

ChildInit == ChInit /\ OthersIdle("ch")

\* the child-process waits of one agent execution; the event loop keeps
\* running whatever is ready, and time passes
SpecChild == ChildInit /\ [][ChNext]_vars /\ WF_vars(ChNext)

TruncateInit == TrInit /\ OthersIdle("tr")

\* the truncation of one output text
SpecTruncate == TruncateInit /\ [][TrNext]_vars

ResolveInit == RpInit /\ OthersIdle("rp")

\* the resolution of one include pattern
SpecResolve == ResolveInit /\ [][RpNext]_vars

EventsInit == EvInit /\ OthersIdle("ev")

\* the calls of process_event on one processor, one after the other
SpecEvents == EventsInit /\ [][EvNext]_vars

AncestorsInit == AnInit /\ OthersIdle("an")

\* one computation of changed_file_dirs_and_ancestors; the interpreter keeps
\* executing the loops
SpecAncestors == AncestorsInit /\ [][AnNext]_vars /\ WF_vars(AnNext)

(***************************************************************************)
(* Properties of one run (Spec)                                            *)
(***************************************************************************)
RunEnded == runState \in {"returned", "raised"}

WorkflowEnded(k) == phase[k] = "wf_exit"

\* C1: execute_agents never raises and returns exactly one result per agent,
\* in input order, whatever step of an agent fails (type resolution included).
C1_OneResultPerAgentNeverRaises ==
    RunEnded =>
        /\ runState = "returned"
        /\ Len(results) = Len(agents)
        /\ \A i \in 1..Len(results) : results[i].agent = i

\* C2: agents run strictly one after the other in list order: an agent has
\* left "pending" only when every earlier agent's result is recorded, at most
\* one agent is inside execute_agent, and the git commands of two agents
\* never interleave (each agent's commands form one block, in list order).
C2_StrictlySequential ==
    /\ \A j \in Idx, k \in Idx :
          (j < k /\ phase[k] # "pending") => phase[j] = "recorded"
    /\ Cardinality({k \in Idx : Active(k)}) <= 1
    /\ \A i \in 1..Len(gitTrace), j \in 1..Len(gitTrace) :
          i < j => gitTrace[i] < gitTrace[j]

\* C2 witness: the second agent is running git commands of its branch workflow
\* after the first agent ran its own and had its result recorded.
C2_Witness ==
    /\ Len(agents) >= 2
    /\ gitTrace = <<1, 2>>
    /\ phase[1] = "recorded"
    /\ phase[2] = "wf_push"

\* C3 (as claimed): when a step fails after the new branch was created, the
\* cleanup attempts the checkout of the base branch and the original error is
\* raised; after a push failure the workspace is on the base branch.
C3_RollbackAlwaysRestoresBase ==
    \A k \in Idx :
        (WorkflowEnded(k) /\ wf[k].status = "raised" /\ wf[k].created) =>
            /\ wf[k].rb_checkout # ""
            /\ wf[k].error = wf[k].failed_at
            /\ (wf[k].failed_at = "push" => head = wf[k].base_branch)

\* C3 (amended): when a step fails after the new branch was created, the
\* cleanup queries the current branch and, if the query succeeds, attempts the
\* checkout of the base branch; a failure of the query or of the checkout is
\* ignored and the original error is raised; the workspace is on the base
\* branch whenever the cleanup checkout succeeded, and still on the new branch
\* otherwise.
C3_BestEffortRollback ==
    \A k \in Idx :
        (WorkflowEnded(k) /\ wf[k].status = "raised" /\ wf[k].created) =>
            /\ wf[k].failed_at \in {"apply_changes", "stage", "commit", "push", "create_pull_request"}
            /\ wf[k].error = wf[k].failed_at
            /\ wf[k].rb_query \in {"ok", "fail"}
            /\ (wf[k].rb_query = "ok") = (wf[k].rb_checkout \in {"ok", "fail"})
            /\ (wf[k].rb_checkout = "ok" => head = wf[k].base_branch)
            /\ (wf[k].rb_checkout # "ok" => head = wf[k].branch_name)

\* C3 witness: the push failed, the cleanup checkout succeeded, and the
\* workflow has raised with the workspace back on the base branch.
C3_Witness ==
    \E k \in Idx :
        /\ WorkflowEnded(k)
        /\ wf[k].status = "raised"
        /\ wf[k].failed_at = "push"
        /\ wf[k].rb_checkout = "ok"
        /\ head = wf[k].base_branch

\* C4: when nothing is staged the workflow returns (None, None, None) without
\* raising, and its branch is neither pushed nor the head of a pull request.
C4_NothingStagedIsNoOp ==
    \A k \in Idx :
        wf[k].diff = "empty" =>
            /\ wf[k].status = "returned"
            /\ wf[k].ret = <<None, None, None>>
            /\ wf[k].error = ""
            /\ wf[k].branch_name \notin remote
            /\ \A pr \in prs : pr.head # wf[k].branch_name

\* C4 witness: a workflow found nothing staged and has returned.
C4_Witness ==
    \E k \in Idx :
        /\ WorkflowEnded(k)
        /\ wf[k].diff = "empty"
        /\ wf[k].created
        /\ wf[k].status = "returned"

\* C5: whenever the workflow returns or raises after having created the new
\* branch (a failed cleanup command set aside), the workspace is back on the
\* base branch; so a workflow without an explicit target branch starts from
\* the branch the run started on.
C5_WorkspaceBackOnBase ==
    \A k \in Idx :
        /\ (WorkflowEnded(k) /\ wf[k].created
              /\ wf[k].rb_query # "fail" /\ wf[k].rb_checkout # "fail")
             => head = wf[k].base_branch
        /\ (wf[k].status # "none" /\ wf[k].base_branch # None
              /\ agents[k].ba.target_branch = None) => wf[k].base_branch = MainBranch

C19_DeliveryFailureKeepsSuccess ==
    \A i \in 1..Len(results) :
        results[i].result.error = "route" => results[i].result.success

\* C20: for every agent type, an output the executor returned successfully is
\* handed to the output router (and to the branch workflow when that runs)
\* before the result is recorded.
C20_OutputRoutedForEveryAgentType ==
    \A i \in 1..Len(results) :
        (results[i].result.success /\ results[i].result.output) =>
            /\ results[i].result.routed
            /\ BranchAutomationRuns(results[i].agent) =>
                  results[i].agent \in {gitTrace[j] : j \in 1..Len(gitTrace)}

\* C23: when the prompt template of an agent fails to render, the executor
\* is not invoked, neither the branch workflow nor the output router runs for
\* the agent, and its result is a failure carrying the render error.
C23_RenderFailureAbortsAgent ==
    /\ [](\A k \in Idx :
            draft[k].error = "render" =>
               /\ ~draft[k].success
               /\ ~draft[k].output
               /\ ~draft[k].routed
               /\ phase[k] \in {"return", "recorded"}
               /\ wf[k] = NoWorkflow
               /\ k \notin {gitTrace[j] : j \in 1..Len(gitTrace)})
    /\ [][\A k \in Idx :
            /\ (phase[k] = "render" /\ phase'[k] \notin {"render", "execute"}) =>
                  (draft'[k].error = "render" /\ phase'[k] = "return")
            /\ (phase[k] = "render" /\ phase'[k] = "execute") => draft'[k].error = ""
            /\ phase[k] \in {"return", "recorded"} => phase'[k] \in {"return", "recorded"}
            /\ phase[k] = "return" => draft'[k] = draft[k]]_vars
    /\ [](\A i \in 1..Len(results) : results[i].result = draft[results[i].agent])

\* C23 witness: the first agent's prompt failed to render and its failed
\* result is recorded; the second agent ran and succeeded.
C23_Witness ==
    /\ Len(results) = 2
    /\ results[1].result.error = "render"
    /\ ~results[1].result.success
    /\ results[2].result.success

\* the external effects of the branch workflow, in the order of the code
EffectOrder ==
    <<"checkout_base", "pull_base", "create_branch", "write_output", "commit",
      "push", "create_pr">>

Done(k, effect) == \E i \in 1..Len(wf[k].effects) : wf[k].effects[i] = effect

\* C30: the effects of a branch workflow occur in the order checkout/pull base,
\* create branch, write output, commit, push, create pull request; a push
\* follows a commit that gave a commit id; a pull request is created only
\* after a successful push and only when create_pull_request is set, with the
\* new branch as head and, as base, the explicit target or else the branch
\* that was current when the workflow started.
C30_WorkflowEffectsInOrder ==
    /\ \A k \in Idx :
          /\ wf[k].effects = SubSeq(EffectOrder, 1, Len(wf[k].effects))
          /\ Done(k, "push") =>
                /\ wf[k].commit_sha # None
                /\ wf[k].branch_name \in remote
          /\ Done(k, "create_pr") =>
                /\ agents[k].ba.create_pull_request
                /\ wf[k].status = "returned"
                /\ [head |-> wf[k].branch_name,
                    base |-> IF agents[k].ba.target_branch # None
                             THEN agents[k].ba.target_branch
                             ELSE wf[k].current_branch] \in prs
    /\ \A pr \in prs :
          /\ pr.head \in remote
          /\ \E k \in Idx :
                /\ pr.head = generate_branch_name(k)
                /\ agents[k].ba.create_pull_request
                /\ agents[k].ba.target_branch # None => pr.base = agents[k].ba.target_branch

\* C30 witness: a workflow went through all six steps and opened a pull
\* request from its new branch to main, the branch it started on.
C30_Witness ==
    \E k \in Idx :
        /\ wf[k].effects = EffectOrder
        /\ wf[k].commit_sha # None
        /\ wf[k].current_branch = MainBranch
        /\ agents[k].ba.target_branch = None
        /\ [head |-> generate_branch_name(k), base |-> MainBranch] \in prs

\* C31: the result of an agent reports a branch in branch_created exactly when
\* the branch workflow of that agent pushed a branch to the remote, and the
\* branch reported is the branch pushed.
C31_BranchReportedIffPushed ==
    \A i \in 1..Len(results) :
        LET k == results[i].agent
            pushed == generate_branch_name(k) \in remote
        IN  /\ pushed => results[i].result.branch_created = generate_branch_name(k)
            /\ ~pushed => results[i].result.branch_created = None

(***************************************************************************)
(* Properties of discover_agents (SpecDiscover)                            *)
(***************************************************************************)
\* a list built by one full scan for event type e: the event directory's
\* agents followed by the wildcard directories' agents
FullScan(e) == LoadAgentsFromDirectory(e) \o LoadAgentsFromDirectory("common")

\* C6 (as claimed): a list served from the cache for a key was loaded for that
\* key less than the TTL earlier.
C6_ServedEntryYoungerThanTTL ==
    lastReturn.from_cache => lastReturn.age < CacheTTL

\* C6 (amended): a list is served from the cache only if less than the TTL has
\* passed since the most recent load of any key (the one shared timestamp);
\* the served list itself may have been loaded earlier than that.
C6_ServedWithinTTLOfLastLoad ==
    /\ lastReturn.from_cache =>
          /\ lastReturn.since_load < CacheTTL
          /\ lastReturn.since_load <= lastReturn.age
    /\ cacheTimestamp = LastLoad

\* C6 witness: a list served from the cache one tick after it was loaded.
C6_Witness ==
    /\ lastReturn.from_cache
    /\ lastReturn.age = Tick
    /\ lastReturn.since_load = Tick

\* C7: under any interleaving of discover calls, every call returns a list
\* built by one full scan for its own key (or the empty list when the agents
\* directory is missing), and the cache maps each key only to such a list.
C7_ConcurrentDiscoverSafe ==
    /\ \A key \in DOMAIN agentCache :
          /\ key[1] \in EventTypes
          /\ agentCache[key] = FullScan(key[1])
    /\ lastReturn.caller # 0 =>
          IF lastReturn.dir_missing
          THEN lastReturn.agents = <<>>
          ELSE lastReturn.agents = FullScan(lastReturn.event_type)

\* C7 witness: one caller is served the cached list of its key while another
\* caller is in the middle of a scan for the other key.
C7_Witness ==
    /\ lastReturn.from_cache
    /\ \E q \in Callers :
          /\ q # lastReturn.caller
          /\ call[q].pc = "scan_wildcard"
          /\ call[q].event_type # lastReturn.event_type
          /\ Len(call[q].agents) = 1

\* C27 (as claimed): a call made while the agents directory does not exist
\* returns the empty list.
C27_MissingDirReturnsEmpty ==
    (lastReturn.caller # 0 /\ ~lastReturn.dir_at_call) => lastReturn.agents = <<>>

\* C27 (amended): a call that finds no valid cache entry for its key and no
\* agents directory returns the empty list, without error; a call that finds
\* a valid cache entry returns the cached list whether or not the directory
\* still exists.
C27_MissingDirWithoutCacheReturnsEmpty ==
    /\ (lastReturn.caller # 0 /\ ~lastReturn.dir_at_call /\ ~lastReturn.from_cache) =>
          (lastReturn.dir_missing /\ lastReturn.agents = <<>>)
    /\ lastReturn.dir_missing => (lastReturn.agents = <<>> /\ ~lastReturn.from_cache)
    /\ lastReturn.from_cache => lastReturn.agents = FullScan(lastReturn.event_type)

\* C27 witness: a list is cached for the call's key but no longer valid, the
\* directory is gone, and the call returned the empty list.
C27_Witness ==
    /\ lastReturn.dir_missing
    /\ lastReturn.agents = <<>>
    /\ cache_key(lastReturn.event_type, Workspace) \in DOMAIN agentCache
    /\ ~agentsDirExists

(***************************************************************************)
(* Properties of _should_run_agent (SpecTrigger)                           *)
(***************************************************************************)
\* every condition of the trigger specification evaluates truthy
ConditionsPass(t) == \A i \in 1..Len(t.conditions) : t.conditions[i] = "truthy"

\* the category passes for the call in progress
Passes(cat) ==
    IF cat = "conditions" THEN ConditionsPass(trig_triggers)
    ELSE CategoryPasses(cat, trig_triggers, trig_event, trig_files)

ReturnedTrue == trig_eval.decision = "true"

\* the name under a ref prefix: refs/heads/<name>, refs/tags/<name>
NameUnder(ref, prefix) == IF StartsWith(ref, prefix) THEN Tail(ref) ELSE <<>>

\* C11: with branch patterns configured the call returns true only for a ref
\* refs/heads/<name> whose <name> matches a pattern; a ref that is not under
\* refs/heads/ is rejected.
C11_BranchRefMustBeUnderHeads ==
    (ReturnedTrue /\ trig_triggers.branches # <<>>) =>
        /\ StartsWith(trig_event.ref, "refs/heads/")
        /\ AnyMatch({NameUnder(trig_event.ref, "refs/heads/")}, trig_triggers.branches)

\* C12: with tag patterns configured the call returns true only for a ref
\* refs/tags/<name> whose <name> matches a pattern; any other ref is rejected.
C12_TagRefMustBeUnderTags ==
    (ReturnedTrue /\ trig_triggers.tags # <<>>) =>
        /\ StartsWith(trig_event.ref, "refs/tags/")
        /\ AnyMatch({NameUnder(trig_event.ref, "refs/tags/")}, trig_triggers.tags)

\* C13: with an event-action allow-list configured the call returns true only
\* if the event's action is in the list; an event without action is rejected.
C13_ActionMustBeInAllowList ==
    (ReturnedTrue /\ trig_triggers.event_actions # <<>>) =>
        trig_event.action \in Range(trig_triggers.event_actions)

\* C14: with a minimum and/or maximum configured the call returns true only if
\* the total of added + removed + modified entries over all commits lies
\* within the bounds, for every event (no commits: total 0) and every bound
\* value (0 included).
C14_FileCountWithinBounds ==
    ReturnedTrue =>
        /\ trig_triggers.files_changed_min # NoneInt =>
              TotalFilesChanged(trig_event.commits) >= trig_triggers.files_changed_min
        /\ trig_triggers.files_changed_max # NoneInt =>
              TotalFilesChanged(trig_event.commits) <= trig_triggers.files_changed_max

\* C15: with path patterns configured the call returns true only if a changed
\* file of some commit matches a pattern; an event with no changed files is
\* rejected.
C15_PathMustMatch ==
    (ReturnedTrue /\ trig_triggers.paths # <<>>) =>
        AnyMatch(ChangedFiles(trig_event.commits), trig_triggers.paths)

\* C16: with a file-pattern list configured the call returns true only if an
\* extracted FileChange filename matches a pattern; an event with no extracted
\* file changes is rejected.
C16_FilePatternMustMatch ==
    (ReturnedTrue /\ trig_triggers.files_changed # <<>>) =>
        AnyMatch(Range(trig_files), trig_triggers.files_changed)

\* C17: an agent with no configured trigger field is never rejected, and runs
\* for every event and context.
C17_NoTriggersAlwaysRuns ==
    trig_triggers = NoTriggers =>
        /\ trig_eval.decision \in {"none", "true"}
        /\ trig_eval.pc > Len(CategoryOrder) => ReturnedTrue

\* C17 witness: an agent without trigger fields was accepted for a tag push
\* with commits and extracted file changes.
C17_Witness ==
    /\ trig_triggers = NoTriggers
    /\ ReturnedTrue
    /\ StartsWith(trig_event.ref, "refs/tags/")
    /\ trig_event.action = "closed"
    /\ Len(trig_event.commits) = 2
    /\ trig_files # <<>>

(***************************************************************************)
(* Properties of filter_agents (SpecFilter)                                *)
(***************************************************************************)
\* agent i has a condition that does not render, does not evaluate, or is
\* falsy
HasBadCondition(i) == ~ConditionsPass(flt_agents[i].triggers)

C10_FilteredSortedStable ==
    flt_state = "returned" =>
        /\ Cardinality(Range(flt_filtered)) = Len(flt_filtered)
        /\ Range(flt_filtered) =
              { i \in 1..Len(flt_agents) :
                  ShouldRunAgent(flt_agents[i].triggers, flt_event, flt_files) = "true" }
        /\ \A a, b \in 1..Len(flt_filtered) :
              a < b =>
                 LET pa == flt_agents[flt_filtered[a]].priority
                     pb == flt_agents[flt_filtered[b]].priority
                 IN  /\ pa <= pb
                     /\ pa = pb => flt_filtered[a] < flt_filtered[b]

\* C10 witness: of three agents the second is left out and the third, which
\* has the smaller priority number, is returned before the first.
C10_Witness ==
    /\ flt_state = "returned"
    /\ Len(flt_agents) = 3
    /\ flt_filtered = <<3, 1>>
    /\ flt_agents[3].priority < flt_agents[1].priority

(***************************************************************************)
(* Properties of the status-check state (SpecStatus)                       *)
(***************************************************************************)
\* the keyword occurs in the text, letter case ignored
OccursIgnoringCase(keyword, text) ==
    \E i \in 0..(Len(text) - Len(keyword)) :
        \A j \in 1..Len(keyword) : text[i + j][1] = keyword[j][1]

AnyOccurs(keywords, text) ==
    \E j \in 1..Len(keywords) : OccursIgnoringCase(keywords[j], text)

RouteReturned == rt_pc > Len(RouteStages)

\* C22: for a network-backed destination the API operation of the destination
\* is invoked exactly once when a credential is configured (for comment: when
\* the event has a pull_request or issue number, the pull_request's first),
\* and not at all without credential or without comment target.
C22_NetworkOperationInvokedOnce ==
    (RouteReturned /\ rt_cfg.destination \in NetworkDestinations) =>
        IF rt_cfg.token /\ (rt_cfg.destination = "comment" => rt_cfg.target # "none")
        THEN /\ Len(rt_api) = 1
             /\ rt_api[1].op = CASE rt_cfg.destination = "status_check" -> "create_status_check"
                                  [] rt_cfg.destination = "comment" -> "create_comment"
                                  [] rt_cfg.destination = "create_issue" -> "create_issue"
             /\ rt_cfg.destination = "comment" =>
                   rt_api[1].number = IF rt_cfg.target = "issue" THEN 3 ELSE 7
        ELSE rt_api = <<>>

\* C24: the stages run in the order read output file, output template,
\* truncation, delivery; a failed file read or a failed template leaves the
\* text of the previous stage, and the delivery still takes place, with the
\* text of the last stage.
C24_PipelineOrderAndDegradation ==
    LET order == <<"read_file", "template", "truncate", "deliver">>
        afterRead == IF rt_log.read = "ok" THEN FromOutputFile ELSE CliOutput
        afterTemplate == IF rt_log.template = "ok"
                         THEN [afterRead EXCEPT !.rendered = TRUE, !.len = @ + 5]
                         ELSE afterRead
        cut == rt_cfg.max_length > 0 /\ afterTemplate.len > rt_cfg.max_length
        final == IF cut
                 THEN [afterTemplate EXCEPT !.len = rt_cfg.max_length + 22, !.truncated = TRUE]
                 ELSE afterTemplate
    IN  /\ Len(rt_stages) <= Len(order)
        /\ \A i \in 1..Len(rt_stages) : rt_stages[i] = order[i]
        /\ (rt_cfg.output_file <=> rt_log.read # "skipped") \/ Len(rt_stages) < 1
        /\ (rt_cfg.template <=> rt_log.template # "skipped") \/ Len(rt_stages) < 2
        /\ Len(rt_stages) >= 3 => rt_text = final
        /\ RouteReturned =>
              /\ rt_log.deliver # "none"
              /\ rt_log.deliver \in {"printed", "written"} => rt_delivered = <<final>>

\* C24 witness: the output file could not be read and the template failed; the
\* unchanged agent output, shorter than the maximum length, was printed.
C24_Witness ==
    /\ RouteReturned
    /\ rt_cfg.max_length = 12
    /\ rt_log = [read |-> "failed", template |-> "failed", deliver |-> "printed"]
    /\ rt_delivered = <<CliOutput>>

(***************************************************************************)
(* Properties of TemplateFileIncluder (SpecInclude)                        *)
(***************************************************************************)
FileBlocks == SelectSeq(inc_blocks, LAMBDA b : b.kind = "file")

Listed(blocks) == {blocks[i].path : i \in 1..Len(blocks)}

Changed == {inc_files[i] : i \in 1..Len(inc_files)}

Ascending(blocks) ==
    \A i, j \in 1..Len(blocks) : i < j => PathLess(blocks[i].path, blocks[j].path)

C26_ChangedDirsPlusRoot ==
    "dirs" \in inc_done =>
        LET parents == {Parent(p) : p \in Changed} \cup {<<>>}
        IN  /\ inc_dirs.dirs = parents
            /\ parents \subseteq inc_dirs.ancestors
            /\ \A d \in inc_dirs.ancestors : Parent(d) \in inc_dirs.ancestors
            /\ \A d \in inc_dirs.ancestors :
                  \E p \in parents : \E n \in 0..Len(p) : d = SubSeq(p, 1, n)

(***************************************************************************)
(* Properties of the directory scan (SpecLoad)                             *)
(***************************************************************************)
ContentAt(at) == ld_dirs[at[1]][at[2]].content

\* C28: every definition returned is enabled and valid; a file that does not
\* parse or validate, or is disabled, is left out, and does not keep any other
\* file of the same or of the other directory from being loaded.
C28_OnlyValidEnabledDefinitions ==
    /\ \A i \in 1..Len(ld_agents) : ContentAt(ld_agents[i]) = "valid"
    /\ ld_state = "returned" =>
             {ld_agents[i] : i \in 1..Len(ld_agents)} =
                UNION { { <<d, i>> : i \in { j \in DOMAIN ld_dirs[d] :
                                               ld_dirs[d][j].content = "valid" } } :
                        d \in 1..2 }

\* C28 witness: the event directory holds a file that does not parse and then
\* a valid one, the wildcard directory a disabled and a valid one; both valid
\* definitions are returned.
C28_Witness ==
    /\ ld_state = "returned"
    /\ ld_dirs[1] = << [ext |-> "yml", content |-> "parse_error"],
                       [ext |-> "yml", content |-> "valid"] >>
    /\ ld_dirs[2] = << [ext |-> "yml", content |-> "disabled"],
                       [ext |-> "yaml", content |-> "valid"] >>
    /\ ld_agents = << <<1, 2>>, <<2, 2>> >>

(***************************************************************************)
(* Properties of the child-process waits (SpecChild)                       *)
(***************************************************************************)
\* C29: every agent execution eventually completes with a result, even if a
\* child process never exits.
C29_ExecutionEventuallyCompletes ==
    <>(ch_call = "done" /\ ch_result # "none")

\* C32: when the agent CLI exceeds its timeout the failure is reported as a
\* TimeoutError, not as the error of a non-zero exit, and the child process
\* is no longer running when the TimeoutError is reported.
C32_TimeoutReportedAndProcessKilled ==
    /\ (ch_error = "TimeoutError") => "agent_cli" \notin ch_running
    /\ (ch_error = "CalledProcessError") => "agent_cli" \notin ch_hangs

(***************************************************************************)
(* Properties of the truncation (SpecTruncate)                             *)
(***************************************************************************)
\* C33: when a max length is configured and the text is longer than it, the
\* delivered text is the first max_length characters of the text followed by
\* the truncation marker; a text of at most max_length characters is
\* delivered unchanged.
C33_TruncatedToMaxLengthPlusMarker ==
    tr_done =>
        IF tr_max_length = NoneInt
        THEN tr_delivered = tr_output
        ELSE IF Len(tr_output) > tr_max_length
             THEN /\ tr_max_length >= 0
                  /\ tr_delivered =
                        [i \in 1..tr_max_length |-> tr_output[i]] \o TruncationMarker
             ELSE tr_delivered = tr_output

(***************************************************************************)
(* Properties of the pattern resolution (SpecResolve)                      *)
(***************************************************************************)
\* the pattern holds the token
Has(tok) == Occurs(rp_pattern, TokenText[tok])

\* the token of highest precedence the pattern holds, or "none"
Chosen ==
    IF Has("ancestors") THEN "ancestors"
    ELSE IF Has("dirs") THEN "dirs"
    ELSE IF Has("workspace") THEN "workspace"
    ELSE IF Has("changed_files") THEN "changed_files"
    ELSE "none"

\* a resolved pattern with the token written back in the place of the value
RECURSIVE WrittenBack(_, _, _)
WrittenBack(resolved, tok, value) ==
    IF resolved = <<>> THEN <<>>
    ELSE (IF Head(resolved) = PathAtom(value) THEN TokenText[tok] ELSE <<Head(resolved)>>)
            \o WrittenBack(Tail(resolved), tok, value)

\* C34: a pattern is resolved with the one token of highest precedence it
\* holds (ancestors, then dirs, then workspace, then changed files): there is
\* one resolved pattern per value of that token, each the pattern with the
\* value in the place of every occurrence of the token and everything else,
\* tokens of lower precedence included, as it was; a pattern without a token
\* resolves to itself alone.
C34_OneTokenByPrecedence ==
    rp_done =>
        IF Chosen = "none" THEN rp_resolved = <<rp_pattern>>
        ELSE LET values ==
                    CASE Chosen = "ancestors" -> changed_file_dirs_and_ancestors(rp_files)
                      [] Chosen = "dirs" -> changed_file_dirs(rp_files)
                      [] Chosen = "workspace" -> {WorkspacePath}
                      [] OTHER -> Range(rp_files)
             IN  /\ Chosen = "changed_files" => Len(rp_resolved) = Len(rp_files)
                 /\ Chosen # "changed_files" => Len(rp_resolved) = Cardinality(values)
                 /\ \A v \in values : \E i \in 1..Len(rp_resolved) :
                       /\ WrittenBack(rp_resolved[i], Chosen, v) = rp_pattern
                       /\ ~Occurs(rp_resolved[i], TokenText[Chosen])
                 /\ \A i \in 1..Len(rp_resolved) : \E v \in values :
                       WrittenBack(rp_resolved[i], Chosen, v) = rp_pattern

\* C34 witness: "$ALL_UNIQUE_CHANGED_FILE_DIRS_AND_THEIR_ANCESTORS/$WORKSPACE"
\* with a/d/e_py changed resolves to one pattern for each of ., a and a/d, the
\* workspace token left as it is.
C34_Witness ==
    /\ rp_done
    /\ rp_pattern = <<Atom("DIRS"), Atom("ANC"), Atom("WORKSPACE")>>
    /\ rp_files = << <<"a", "d", "e_py">> >>
    /\ rp_resolved = << <<PathAtom(<<>>), Atom("WORKSPACE")>>,
                        <<PathAtom(<<"a">>), Atom("WORKSPACE")>>,
                        <<PathAtom(<<"a", "d">>), Atom("WORKSPACE")>> >>

(***************************************************************************)
(* Properties of the event statistics (SpecEvents)                         *)
(***************************************************************************)
RECURSIVE SumOver(_, _)
SumOver(f, keys) ==
    IF keys = {} THEN 0
    ELSE LET k == CHOOSE x \in keys : TRUE IN f[k] + SumOver(f, keys \ {k})

\* C35: after any sequence of completed process_event calls, total_events is
\* successful_events + failed_events and is the sum of the events_by_type
\* counts.
C35_StatisticsAddUp ==
    /\ ev_stats.total_events = ev_stats.successful_events + ev_stats.failed_events
    /\ ev_stats.total_events = SumOver(ev_stats.events_by_type, EventTypes)

(***************************************************************************)
(* Properties of the ancestor loops (SpecAncestors)                        *)
(***************************************************************************)
\* C36: the computation of the changed-file directories and their ancestors
\* terminates for every list of changed-file names, names without a
\* directory part and absolute paths included.
C36_AncestorsTerminates == <>(an_pc = "done")

====
